---- MODULE Spec2Model ----
(***************************************************************************)
(* FinOps Maturity Index: the session state of the assessment app and its  *)
(* scoring engine.                                                         *)
(*                                                                         *)
(* Two variants of the app live in the repository.  The "report" variant   *)
(* (src/unnamed/part_002, and its predecessor part_000) keeps              *)
(* model / selectedCaps / answersByCap / meta / currentCapKey and derives  *)
(* `report` with one scoring pass.  The "capIndex" variant                 *)
(* (src/finops-assessment-app/src/App.jsx, and part_001) keeps             *)
(* model / selectedCaps / answersByCap / capIndex and scores each          *)
(* capability with computeCapMetrics.                                      *)
(*                                                                         *)
(* Encoding of JavaScript values:                                          *)
(*   - a number that the code obtains by division is an IEEE 754 double,   *)
(*     computed with the roundings of the code's operations in their order;*)
(*   - an object is a function whose DOMAIN is the set of its own keys;    *)
(*     `o?.[k]` is "k \in DOMAIN o"; array index i is sequence index i+1;  *)
(*   - null / undefined is a one-field record (NoModel, NoReport) or the   *)
(*     string NoKey; an absent `lens` is the empty string (falsy in JS).   *)
(***************************************************************************)
EXTENDS Integers, Sequences, FiniteSets, TLC

VARIABLES
    model,          \* useState(null) / useState({capabilities: []})
    selectedCaps,   \* useState([]): capability keys
    answersByCap,   \* useState({}): capKey -> (question index -> level)
    meta,           \* useState({date, customer, assessor})
    activeTab,      \* useState("setup")
    currentCapKey,  \* useState(null): capability shown in the assessment tab
    capIndex,       \* capIndex variant: useState(0)
    snapshots,      \* localStorage[SNAP_KEY]: list of snapshot entries
    storedHash,     \* localStorage[MODEL_HASH_KEY]
    autoLoad,       \* the auto-load effect: "fetching" | "done"
    report,         \* the value of the `report` useMemo after the last render
    allCapScores,   \* capIndex variant: [list |-> the `allCapScores` useMemo value]
    avg100,         \* argument handed to maturityFromScore
    maturity,       \* key of the tier maturityFromScore returned
    exported,       \* the files exportAnswers wrote, each with the state it was built in
    now,            \* the clock read by new Date()
    savedIn,        \* snapshot id -> the session state saveSnapshot was called in
    pendingReads    \* the reads reader.readAsText started whose onload has not run:
                    \* [handler, value (the text of the file), and in the capIndex
                    \* variant the allCaps that onload closed over]

vars == <<model, selectedCaps, answersByCap, meta, activeTab, currentCapKey,
          capIndex, snapshots, storedHash, autoLoad, report, allCapScores,
          avg100, maturity, exported, now, savedIn, pendingReads>>

----------------------------------------------------------------------------
(* Program constants *)

LEVELS == <<"Pre-crawl", "Crawl", "Walk", "Run", "Fly">>
LENSES == <<"Knowledge", "Process", "Metrics", "Adoption", "Automation">>
MODEL_VERSION_FALLBACK == "1.3"
APP_NAME == "FinOps Maturity Index"

NoModel  == [null |-> TRUE]
NoReport == [null |-> TRUE]
NoKey    == "<null>"

LensSet  == {LENSES[i] : i \in 1..Len(LENSES)}
LevelSet == {LEVELS[i] : i \in 1..Len(LEVELS)}

----------------------------------------------------------------------------
(* IEEE 754 double arithmetic for the values the code computes with /, * and + *)

Abs(x) == IF x < 0 THEN -x ELSE x
Max(a, b) == IF a >= b THEN a ELSE b
Min(a, b) == IF a <= b THEN a ELSE b

\* A natural number of any size is a little-endian sequence of limbs below
\* LimbBase without leading zero limbs (the evaluator's integers have 32 bits).
LimbBits == 15
LimbBase == 2^LimbBits

RECURSIVE BigTrim(_)
BigTrim(n) ==
    IF n # <<>> /\ n[Len(n)] = 0 THEN BigTrim(SubSeq(n, 1, Len(n) - 1)) ELSE n

RECURSIVE BigOfNat(_)
BigOfNat(k) == IF k = 0 THEN <<>> ELSE <<k % LimbBase>> \o BigOfNat(k \div LimbBase)

RECURSIVE BigToNat(_)
BigToNat(n) == IF n = <<>> THEN 0 ELSE Head(n) + LimbBase * BigToNat(Tail(n))

RECURSIVE BigMulSmall(_, _, _)
\* n * k + carry for 1 <= k <= LimbBase
BigMulSmall(n, k, carry) ==
    IF n = <<>> THEN BigOfNat(carry)
    ELSE LET t == Head(n) * k + carry
         IN  <<t % LimbBase>> \o BigMulSmall(Tail(n), k, t \div LimbBase)

RECURSIVE BigDivSmall(_, _)
\* quotient (with leading zero limbs) and remainder of n by d, 1 <= d <= LimbBase
BigDivSmall(n, d) ==
    IF n = <<>> THEN [q |-> <<>>, r |-> 0]
    ELSE LET hi  == BigDivSmall(Tail(n), d)
             cur == hi.r * LimbBase + Head(n)
         IN  [q |-> <<cur \div d>> \o hi.q, r |-> cur % d]

RECURSIVE BigAdd(_, _, _)
BigAdd(a, b, carry) ==
    IF a = <<>> /\ b = <<>> THEN BigOfNat(carry)
    ELSE LET t == (IF a = <<>> THEN 0 ELSE Head(a)) + (IF b = <<>> THEN 0 ELSE Head(b)) + carry
         IN  <<t % LimbBase>> \o BigAdd(IF a = <<>> THEN <<>> ELSE Tail(a),
                                        IF b = <<>> THEN <<>> ELSE Tail(b), t \div LimbBase)

RECURSIVE BigLess(_, _)
BigLess(a, b) ==
    IF Len(a) # Len(b) THEN Len(a) < Len(b)
    ELSE IF a = <<>> THEN FALSE
    ELSE IF a[Len(a)] # b[Len(b)] THEN a[Len(a)] < b[Len(b)]
    ELSE BigLess(SubSeq(a, 1, Len(a) - 1), SubSeq(b, 1, Len(b) - 1))

\* the number of binary digits of n
BigBitLen(n) ==
    IF n = <<>> THEN 0
    ELSE LimbBits * (Len(n) - 1)
         + (CHOOSE k \in 1..LimbBits : 2^(k - 1) <= n[Len(n)] /\ n[Len(n)] < 2^k)

\* n * 2^k
BigShiftLeft(n, k) ==
    IF n = <<>> THEN <<>>
    ELSE [i \in 1..(k \div LimbBits) |-> 0] \o BigTrim(BigMulSmall(n, 2^(k % LimbBits), 0))

\* floor(n / 2^k), and whether a non-zero digit was shifted out
BigShiftRight(n, k) ==
    LET a == Min(k \div LimbBits, Len(n))
        d == BigDivSmall(SubSeq(n, a + 1, Len(n)), 2^(k % LimbBits))
    IN  [q |-> BigTrim(d.q), lost |-> d.r # 0 \/ \E i \in 1..a : n[i] # 0]

\* A double is [neg, m, e] with the value (-1)^neg * m * 2^e, m odd and below
\* 2^53, or m = 0 (<<>>) with e = 0; two doubles are equal exactly when their
\* records are.  Infinities, NaN, -0 and subnormal numbers do not arise from
\* the sums and quotients the code computes and are left out.
DblZero == [neg |-> FALSE, m |-> <<>>, e |-> 0]

\* n * 2^e for 0 < n < 2^53, with the trailing zero digits of n moved to e
DblCanonical(neg, n, e) ==
    LET z  == (CHOOSE i \in 1..Len(n) : n[i] # 0 /\ \A j \in 1..(i - 1) : n[j] = 0) - 1
        n1 == SubSeq(n, z + 1, Len(n))
        t  == CHOOSE b \in 0..(LimbBits - 1) : n1[1] % 2^b = 0 /\ n1[1] % 2^(b + 1) # 0
    IN  [neg |-> neg, m |-> BigTrim(BigDivSmall(n1, 2^t).q), e |-> e + LimbBits * z + t]

\* the double nearest to n * 2^e (plus a positive amount below 2^e when
\* `sticky`), ties to the even mantissa
DblNearest(neg, n, e, sticky) ==
    IF n = <<>> THEN DblZero
    ELSE IF BigBitLen(n) <= 53 THEN DblCanonical(neg, n, e)
    ELSE LET sh == BigBitLen(n) - 53
             t  == BigShiftRight(n, sh - 1)
             q  == BigShiftRight(t.q, 1)
             up == q.lost /\ (t.lost \/ sticky \/ q.q[1] % 2 = 1)
         IN  DblCanonical(neg, IF up THEN BigAdd(q.q, <<1>>, 0) ELSE q.q, e + sh)

\* the integer k as a double
DblInt(k) == DblNearest(k < 0, BigOfNat(Abs(k)), 0, FALSE)

\* x / d for an integer d, 1 <= |d| <= LimbBase
DblDivInt(x, d) ==
    IF x.m = <<>> THEN DblZero
    ELSE LET dv == BigDivSmall([i \in 1..5 |-> 0] \o x.m, Abs(d))
         IN  DblNearest(x.neg # (d < 0), BigTrim(dv.q), x.e - 5 * LimbBits, dv.r # 0)

\* a / b for integers a and b, 1 <= |b| <= LimbBase
DblDiv(a, b) == DblDivInt(DblInt(a), b)

\* x * k for an integer k, 0 <= k <= LimbBase
DblMulInt(x, k) ==
    IF x.m = <<>> \/ k = 0 THEN DblZero
    ELSE DblNearest(x.neg, BigTrim(BigMulSmall(x.m, k, 0)), x.e, FALSE)

\* x + y for x and y of one sign
DblAdd(x, y) ==
    IF x.m = <<>> THEN y
    ELSE IF y.m = <<>> THEN x
    ELSE LET e == Min(x.e, y.e)
         IN  DblNearest(x.neg, BigAdd(BigShiftLeft(x.m, x.e - e),
                                      BigShiftLeft(y.m, y.e - e), 0), e, FALSE)

\* |x| < |y|
DblMagLess(x, y) ==
    LET e == Min(x.e, y.e)
    IN  BigLess(BigShiftLeft(x.m, x.e - e), BigShiftLeft(y.m, y.e - e))

\* x < y
DblLess(x, y) ==
    IF x.neg # y.neg THEN x.neg
    ELSE IF x.neg THEN DblMagLess(y, x) ELSE DblMagLess(x, y)

\* x <= y
DblLeq(x, y) == ~DblLess(y, x)

\* Math.round(x): the integer nearest to x, halves rounded towards +Infinity
DblMathRound(x) ==
    IF x.e >= 0 THEN (IF x.neg THEN -1 ELSE 1) * BigToNat(BigShiftLeft(x.m, x.e))
    ELSE LET t == BigShiftRight(x.m, -x.e - 1)
         IN  IF x.neg THEN -((BigToNat(t.q) + (IF t.lost THEN 1 ELSE 0)) \div 2)
             ELSE (BigToNat(t.q) + 1) \div 2

RECURSIVE DblReduceSum(_, _)
\* s.reduce((a, c) => a + c, acc)
DblReduceSum(acc, s) ==
    IF s = <<>> THEN acc ELSE DblReduceSum(DblAdd(acc, Head(s)), Tail(s))

----------------------------------------------------------------------------
(* Sequence helpers standing for Array.prototype methods *)

Includes(s, x) == \E i \in 1..Len(s) : s[i] = x

RECURSIVE SeqSum(_)
SeqSum(s) == IF s = <<>> THEN 0 ELSE Head(s) + SeqSum(Tail(s))

\* the set of elements of a sequence
Range(s) == {s[i] : i \in 1..Len(s)}

\* s.indexOf(x), 0-based, -1 when absent
IndexOf(s, x) ==
    IF Includes(s, x) THEN (CHOOSE i \in 1..Len(s) :
                               s[i] = x /\ \A j \in 1..(i-1) : s[j] # x) - 1
    ELSE -1

----------------------------------------------------------------------------
(* The scoring pass of the report variant (part_002, `report` useMemo) *)

\* model?.capabilities || []
allCaps(m) == IF m = NoModel THEN <<>> ELSE m.capabilities

\* allCaps.map(c => c.key)
modelKeys(m) == [i \in 1..Len(allCaps(m)) |-> allCaps(m)[i].key]

\* mutant: an empty selection stays empty
selectedCapsSafeAsStored(m, sel) == sel

\* selectedCaps.length ? selectedCaps : allCaps.map(c => c.key)
selectedCapsSafe(m, sel) == IF Len(sel) # 0 THEN sel ELSE modelKeys(m)

\* mutant: an unanswered question defaults to the top level
lookupLevelDefaultTop(answers, capKey, idx) ==
    IF capKey \in DOMAIN answers /\ idx \in DOMAIN answers[capKey]
    THEN answers[capKey][idx] ELSE LEVELS[Len(LEVELS)]

\* answersByCap?.[cap.key]?.[idx]; undefined is the (falsy) empty string
lookupLevel(answers, capKey, idx) ==
    IF capKey \in DOMAIN answers /\ idx \in DOMAIN answers[capKey]
    THEN answers[capKey][idx] ELSE ""

\* mutant: a level missing from the scores table weighs as the top level
questionWeightUnknownAsTop(q, lvl) ==
    IF lvl = "" THEN <<>>
    ELSE IF lvl \in DOMAIN q.scores THEN <<q.scores[lvl]>> ELSE <<20>>

\* (lvl && typeof q.scores?.[lvl] === "number") ? q.scores[lvl] : null
\* <<w>> is the number w, <<>> is null
questionWeight(q, lvl) ==
    IF lvl # "" /\ lvl \in DOMAIN q.scores THEN <<q.scores[lvl]>> ELSE <<>>

\* mutant: the answer is looked up at the 1-based position
questionContribsOneBased(cap, answers) ==
    [i \in 1..Len(cap.questions) |->
        LET w == questionWeight(cap.questions[i], lookupLevel(answers, cap.key, i))
        IN  IF w # <<>> THEN w[1] ELSE 0]

\* the weights the forEach over cap.questions adds up, one per question
\* (0 where the question has no scoring answer)
questionContribs(cap, answers) ==
    [i \in 1..Len(cap.questions) |->
        LET w == questionWeight(cap.questions[i], lookupLevel(answers, cap.key, i - 1))
        IN  IF w # <<>> THEN w[1] ELSE 0]

\* lensTotals of one capability: per lens the sum and the answered count
lensTotalsOf(cap, answers) ==
    [l \in LensSet |->
        LET hit == [i \in 1..Len(cap.questions) |->
                      LET q == cap.questions[i]
                          w == questionWeight(q, lookupLevel(answers, cap.key, i - 1))
                      IN  IF w # <<>> /\ q.lens # "" /\ q.lens = l THEN <<w[1]>> ELSE <<>>]
        IN  [sum      |-> SeqSum([i \in 1..Len(hit) |-> IF hit[i] # <<>> THEN hit[i][1] ELSE 0]),
             answered |-> SeqSum([i \in 1..Len(hit) |-> IF hit[i] # <<>> THEN 1 ELSE 0])]]

\* mutant: the denominator counts the questions without the top weight
capMax20Unscaled(cap) == Max(1, Len(cap.questions))

\* Math.max(1, cap.questions.length * 20)
capMax20(cap) == Max(1, Len(cap.questions) * 20)

\* one element of capTotals
capTotalsEntry(cap, answers) ==
    LET sum20 == SeqSum(questionContribs(cap, answers))
        max20 == capMax20(cap)
    IN  [capKey      |-> cap.key,
         name        |-> cap.name,
         sum20       |-> sum20,
         max20       |-> max20,
         capScore100 |-> DblMulInt(DblDiv(sum20, max20), 100),
         lensTotals  |-> lensTotalsOf(cap, answers)]

RECURSIVE capsInScope(_, _)
\* allCaps.filter(c => selectedCapsSafe.includes(c.key))
capsInScope(caps, selSafe) ==
    IF caps = <<>> THEN <<>>
    ELSE IF Includes(selSafe, Head(caps).key)
         THEN <<Head(caps)>> \o capsInScope(Tail(caps), selSafe)
         ELSE capsInScope(Tail(caps), selSafe)

capTotalsOf(m, sel, answers) ==
    LET scoped == capsInScope(allCaps(m), selectedCapsSafe(m, sel))
    IN  [i \in 1..Len(scoped) |-> capTotalsEntry(scoped[i], answers)]

\* mutant: the overall score weighted by question count
overallWeightedByQuestions(capTotals) ==
    IF Len(capTotals) # 0
    THEN DblMulInt(DblDiv(SeqSum([i \in 1..Len(capTotals) |-> capTotals[i].sum20]),
                          SeqSum([i \in 1..Len(capTotals) |-> capTotals[i].max20])), 100)
    ELSE DblInt(0)

\* capTotals.length ? capTotals.reduce((a,c) => a + c.capScore100, 0) / capTotals.length : 0
overallAvgCapScore100(capTotals) ==
    IF Len(capTotals) # 0
    THEN DblDivInt(DblReduceSum(DblInt(0),
                                [i \in 1..Len(capTotals) |-> capTotals[i].capScore100]),
                   Len(capTotals))
    ELSE DblInt(0)

\* capTotals.map(c => ({ subject: c.name, total: c.sum20, fullMark: c.max20 }))
spiderData(capTotals) ==
    [i \in 1..Len(capTotals) |->
        [subject |-> capTotals[i].name, total |-> capTotals[i].sum20,
         fullMark |-> capTotals[i].max20]]

\* lensAgg: lens sums and answered counts added up over capTotals
lensAgg(capTotals) ==
    [l \in LensSet |->
        [sum      |-> SeqSum([i \in 1..Len(capTotals) |-> capTotals[i].lensTotals[l].sum]),
         answered |-> SeqSum([i \in 1..Len(capTotals) |-> capTotals[i].lensTotals[l].answered])]]

\* a.answered ? (a.sum / (a.answered * 20)) * 100 : 0
lensValue(a) ==
    IF a.answered # 0 THEN DblMulInt(DblDiv(a.sum, a.answered * 20), 100) ELSE DblInt(0)

\* LENSES.map(l => ({ label: l, value }))
lensOverview(capTotals) ==
    [i \in 1..Len(LENSES) |->
        [label |-> LENSES[i], value |-> lensValue(lensAgg(capTotals)[LENSES[i]])]]

\* the per-capability lens bars of the report tab
lensItems(agg) ==
    [i \in 1..Len(LENSES) |->
        [label |-> LENSES[i], value |-> lensValue(agg.lensTotals[LENSES[i]])]]

\* lensTotals is a plain object ({} filled by LENSES.reduce, or
\* Object.fromEntries), so lensTotals[q.lens] is also truthy for a lens that
\* names a property every object inherits from Object.prototype
InheritedKeys ==
    {"constructor", "toString", "toLocaleString", "valueOf", "hasOwnProperty",
     "isPrototypeOf", "propertyIsEnumerable", "__proto__", "__defineGetter__",
     "__defineSetter__", "__lookupGetter__", "__lookupSetter__"}

\* the forEach body for a scoring answer to a question whose lens is an
\* inherited key: lensTotals[q.lens].sum and .answered become NaN properties
\* of the inherited value, and lensTotals[q.lens].answers is undefined, so
\* .push throws a TypeError
lensLookupThrows(cap, answers) ==
    \E i \in 1..Len(cap.questions) :
        /\ questionWeight(cap.questions[i], lookupLevel(answers, cap.key, i - 1)) # <<>>
        /\ cap.questions[i].lens \in InheritedKeys

\* the useMemo body throws while rendering
reportThrows(m, sel, answers) ==
    /\ m # NoModel
    /\ LET scoped == capsInScope(allCaps(m), selectedCapsSafe(m, sel))
       IN  \E i \in 1..Len(scoped) : lensLookupThrows(scoped[i], answers)

\* the outcome of a render whose useMemo body threw
RenderThrew == [threw |-> "TypeError"]

\* the component is mounted: no render has thrown (there is no error boundary)
Mounted == report # RenderThrew /\ allCapScores # RenderThrew

\* the body of the `report` useMemo
computeReport(m, sel, answers) ==
    IF m = NoModel THEN NoReport
    ELSE IF reportThrows(m, sel, answers) THEN RenderThrew
    ELSE LET ct == capTotalsOf(m, sel, answers)
         IN  [capTotals             |-> ct,
              overallAvgCapScore100 |-> overallAvgCapScore100(ct),
              spiderData            |-> spiderData(ct),
              lensOverview          |-> lensOverview(ct)]

\* part_000: the cross-capability lens bars, rounded to whole percents
\* x.max20 ? Math.round((x.sum20 / x.max20) * 100) : 0
lensBars(capTotals) ==
    [i \in 1..Len(LENSES) |->
        LET a     == lensAgg(capTotals)[LENSES[i]]
            max20 == a.answered * 20
        IN  [lens |-> LENSES[i],
             value100 |-> IF max20 # 0
                          THEN DblMathRound(DblMulInt(DblDiv(a.sum, max20), 100))
                          ELSE 0]]

\* part_000: the body of the `report` useMemo
computeReport0(m, sel, answers) ==
    IF m = NoModel THEN NoReport
    ELSE IF reportThrows(m, sel, answers) THEN RenderThrew
    ELSE LET ct == capTotalsOf(m, sel, answers)
         IN  [capTotals             |-> ct,
              overallAvgCapScore100 |-> overallAvgCapScore100(ct),
              spiderData            |-> spiderData(ct),
              lensBars              |-> lensBars(ct)]

\* mutant: the thresholds compared with <=
maturityFromScoreInclusive(s) ==
    IF DblLeq(s, DblInt(10)) THEN "Pre-crawl"
    ELSE IF DblLeq(s, DblInt(30)) THEN "Crawl"
    ELSE IF DblLeq(s, DblInt(55)) THEN "Walk"
    ELSE IF DblLeq(s, DblInt(80)) THEN "Run"
    ELSE "Fly"

\* maturityFromScore(avg100).key
maturityFromScore(s) ==
    IF DblLess(s, DblInt(10)) THEN "Pre-crawl"
    ELSE IF DblLess(s, DblInt(30)) THEN "Crawl"
    ELSE IF DblLess(s, DblInt(55)) THEN "Walk"
    ELSE IF DblLess(s, DblInt(80)) THEN "Run"
    ELSE "Fly"

----------------------------------------------------------------------------
(* The scoring of the capIndex variant (App.jsx, computeCapMetrics) *)

\* answersMap?.[q.id] with q.id = String(idx)
lookupAnswer(answersMap, idx) == IF idx \in DOMAIN answersMap THEN answersMap[idx] ELSE ""

RECURSIVE InsertByAvg(_, _)
\* insert x after every element whose avg100 is <= x.avg100 (a stable sort step)
InsertByAvg(sorted, x) ==
    IF sorted = <<>> THEN <<x>>
    ELSE IF DblLeq(Head(sorted).avg100, x.avg100)
         THEN <<Head(sorted)>> \o InsertByAvg(Tail(sorted), x)
         ELSE <<x>> \o sorted

RECURSIVE SortByAvg(_)
\* .sort((a,b) => a.avg100 - b.avg100), stable
SortByAvg(s) ==
    IF s = <<>> THEN <<>>
    ELSE InsertByAvg(SortByAvg(SubSeq(s, 1, Len(s) - 1)), s[Len(s)])

\* computeCapMetrics throws: a scoring answer to a question whose lens is an
\* inherited key reaches lensTotals[q.lens].answers.push with no `answers`
metricsThrow(capability, answersMap) ==
    \E i \in 1..Len(capability.questions) :
        /\ questionWeight(capability.questions[i], lookupAnswer(answersMap, i - 1)) # <<>>
        /\ capability.questions[i].lens \in InheritedKeys

\* computeCapMetrics(capability, answersMap) for a capability that exists
computeCapMetrics(capability, answersMap) ==
    IF metricsThrow(capability, answersMap) THEN RenderThrew ELSE
    LET qs    == capability.questions
        n     == Len(qs)
        w     == [i \in 1..n |-> questionWeight(qs[i], lookupAnswer(answersMap, i - 1))]
        sum20 == SeqSum([i \in 1..n |-> IF w[i] # <<>> THEN w[i][1] ELSE 0])
        count == SeqSum([i \in 1..n |-> IF w[i] # <<>> THEN 1 ELSE 0])
        max20 == 20 * n
        lt    == [l \in LensSet |->
                    [sum      |-> SeqSum([i \in 1..n |->
                                    IF w[i] # <<>> /\ qs[i].lens # "" /\ qs[i].lens = l
                                    THEN w[i][1] ELSE 0]),
                     answered |-> SeqSum([i \in 1..n |->
                                    IF w[i] # <<>> /\ qs[i].lens # "" /\ qs[i].lens = l
                                    THEN 1 ELSE 0]),
                     total    |-> SeqSum([i \in 1..n |-> IF qs[i].lens = l THEN 1 ELSE 0])]]
        denom(l) == IF lt[l].total * 20 # 0 THEN lt[l].total * 20 ELSE 1
    IN  [sum20       |-> sum20,
         avg20       |-> IF count # 0 THEN DblDiv(sum20, count) ELSE DblInt(0),
         max20       |-> max20,
         count       |-> count,
         capScore100 |-> IF max20 # 0 THEN DblMulInt(DblDiv(sum20, max20), 100)
                         ELSE DblInt(0),
         radarData   |-> [i \in 1..Len(LENSES) |->
                            [lens |-> LENSES[i],
                             value |-> DblMulInt(DblDiv(lt[LENSES[i]].sum,
                                                        denom(LENSES[i])), 100)]],
         lensView    |-> SortByAvg([i \in 1..Len(LENSES) |->
                            [lens |-> LENSES[i],
                             avg100 |-> DblMulInt(DblDiv(lt[LENSES[i]].sum,
                                                         denom(LENSES[i])), 100)]])]

RECURSIVE filterByKeys(_, _)
\* allCaps.filter(c => keys.has(c.key || ""))
filterByKeys(caps, keys) ==
    IF caps = <<>> THEN <<>>
    ELSE IF Head(caps).key \in keys
         THEN <<Head(caps)>> \o filterByKeys(Tail(caps), keys)
         ELSE filterByKeys(Tail(caps), keys)

\* the `selectedList` useMemo
selectedList(m, sel) ==
    IF Len(allCaps(m)) = 0 THEN <<>>
    ELSE filterByKeys(allCaps(m),
                      IF Len(sel) # 0 THEN Range(sel) ELSE Range(modelKeys(m)))

\* the `allCapScores` useMemo throws while rendering
allCapScoresThrow(m, sel, answers) ==
    LET list == selectedList(m, sel)
    IN  \E i \in 1..Len(list) :
            metricsThrow(list[i], IF list[i].key \in DOMAIN answers THEN answers[list[i].key]
                                  ELSE <<>>)

\* the `allCapScores` useMemo: answersByCap[key] || {}
allCapScoresOf(m, sel, answers) ==
    LET list == selectedList(m, sel)
    IN  IF allCapScoresThrow(m, sel, answers) THEN RenderThrew ELSE
        [i \in 1..Len(list) |->
            [key     |-> list[i].key,
             name    |-> list[i].name,
             metrics |-> computeCapMetrics(list[i],
                            IF list[i].key \in DOMAIN answers THEN answers[list[i].key]
                            ELSE <<>>)]]

\* the `overallSpiderData` useMemo
overallSpiderData(scores) ==
    [i \in 1..Len(scores) |->
        [capability |-> scores[i].name, value |-> scores[i].metrics.capScore100]]

----------------------------------------------------------------------------
(* Bounds and input sets *)

MaxQ       == 2    \* questions per generated capability (scoring inputs)
TierMargin == 5    \* how far below 0 and above 100 the tier inputs reach
MaxPending == 1    \* reads of a FileReader that are pending at one time

StdScores ==
    ("Pre-crawl" :> 0) @@ ("Crawl" :> 5) @@ ("Walk" :> 10) @@ ("Run" :> 15) @@ ("Fly" :> 20)
\* a scores table without "Walk", "Crawl" and "Pre-crawl"
TopScores == ("Run" :> 20) @@ ("Fly" :> 20)
\* a scores table whose sums give quotients that no double holds exactly
OddScores == ("Walk" :> 3) @@ ("Fly" :> 20)

QK == [text |-> "tagging policy", lens |-> "Knowledge", scores |-> StdScores]
QP == [text |-> "showback cadence", lens |-> "Process", scores |-> StdScores]
\* a question without lens and with a partial scores table
QN == [text |-> "untagged spend", lens |-> "", scores |-> TopScores]

\* a Knowledge question with odd weights: Walk and Fly on two of them sum to
\* 23 of 40, and (23 / 40) * 100 is 57.49999999999999
QW == [text |-> "forecast review", lens |-> "Knowledge", scores |-> OddScores]

QuestionInputs == {QK, QP, QN, QW}

\* the levels a test run answers with
LevelInputs == {"Walk", "Run", "Fly"}

DefaultMeta == [date |-> "2025-08-08", customer |-> "", assessor |-> ""]

Cap(key, name, questions) == [key |-> key, name |-> name, questions |-> questions]

\* all question lists of length 0..n over QuestionInputs
QuestionLists(n) == UNION {[1..k -> QuestionInputs] : k \in 0..n}

\* all objects with keys among 0..n-1 and values in LevelInputs
AnswerMaps(n) == UNION {[D -> LevelInputs] : D \in SUBSET (0..(n - 1))}

\* models handed to the scoring pass: capability "alloc" with any question
\* list, alone or followed by capability "budget" with zero or one question
ScoreModels ==
    {[version |-> "1.3", capabilities |-> <<Cap("alloc", "Allocation", qs)>> \o rest] :
        qs \in QuestionLists(MaxQ),
        rest \in {<<>>, <<Cap("budget", "Budgeting", <<>>)>>,
                  <<Cap("budget", "Budgeting", <<QK>>)>>}}

ScoreSelections == {<<>>, <<"alloc">>, <<"budget">>, <<"alloc", "budget">>}

ScoreAnswers ==
    {[k \in K |-> IF k = "alloc" THEN a ELSE b] :
        K \in SUBSET {"alloc", "budget"}, a \in AnswerMaps(MaxQ), b \in AnswerMaps(1)}

\* scores handed to maturityFromScore: every half point in range
TierInputs == {DblDiv(k, 2) : k \in (-2 * TierMargin)..(200 + 2 * TierMargin)}

----------------------------------------------------------------------------
(* Specification SpecTier: maturityFromScore applied to each input *)

Idle ==
    /\ model = NoModel /\ selectedCaps = <<>> /\ answersByCap = <<>>
    /\ meta = DefaultMeta /\ activeTab = "setup" /\ currentCapKey = NoKey
    /\ capIndex = 0 /\ snapshots = <<>> /\ storedHash = "" /\ autoLoad = "done"
    /\ report = NoReport /\ allCapScores = NoReport
    /\ exported = <<>> /\ now = 0 /\ savedIn = <<>> /\ pendingReads = <<>>

InitTier == Idle /\ avg100 \in TierInputs /\ maturity = "none"

Classify ==
    /\ maturity = "none"
    /\ maturity' = maturityFromScore(avg100)
    /\ UNCHANGED <<model, selectedCaps, answersByCap, meta, activeTab, currentCapKey,
                   capIndex, snapshots, storedHash, autoLoad, report, allCapScores, avg100,
                   exported, now, savedIn, pendingReads>>

NextTier == Classify

SpecTier == InitTier /\ [][NextTier]_vars

----------------------------------------------------------------------------
(* Specification SpecScore: one scoring pass over each input *)

InitScore ==
    /\ model \in ScoreModels
    /\ selectedCaps \in ScoreSelections
    /\ answersByCap \in ScoreAnswers
    /\ meta = DefaultMeta /\ activeTab = "report" /\ currentCapKey = NoKey
    /\ capIndex = 0 /\ snapshots = <<>> /\ storedHash = "" /\ autoLoad = "done"
    /\ report = NoReport /\ allCapScores = NoReport
    /\ avg100 = DblInt(0) /\ maturity = "none"
    /\ exported = <<>> /\ now = 0 /\ savedIn = <<>> /\ pendingReads = <<>>

\* the first render of the report tab: the useMemo body runs, the thermometer
\* classifies the overall score
Render ==
    /\ report = NoReport
    /\ report' = computeReport(model, selectedCaps, answersByCap)
    /\ IF report' = RenderThrew
       THEN UNCHANGED <<avg100, maturity>>
       ELSE /\ avg100' = report'.overallAvgCapScore100
            /\ maturity' = maturityFromScore(avg100')
    /\ UNCHANGED <<model, selectedCaps, answersByCap, meta, activeTab, currentCapKey,
                   capIndex, snapshots, storedHash, autoLoad, allCapScores, exported, now, savedIn, pendingReads>>

NextScore == Render

SpecScore == InitScore /\ [][NextScore]_vars

\* part_000: the first render of the report tab
Render0 ==
    /\ report = NoReport
    /\ report' = computeReport0(model, selectedCaps, answersByCap)
    /\ IF report' = RenderThrew
       THEN UNCHANGED <<avg100, maturity>>
       ELSE /\ avg100' = report'.overallAvgCapScore100
            /\ maturity' = maturityFromScore(avg100')
    /\ UNCHANGED <<model, selectedCaps, answersByCap, meta, activeTab, currentCapKey,
                   capIndex, snapshots, storedHash, autoLoad, allCapScores, exported, now, savedIn, pendingReads>>

NextScore0 == Render0

SpecScore0 == InitScore /\ [][NextScore0]_vars

\* capIndex variant: the first render computes allCapScores
RenderMetrics ==
    /\ allCapScores = NoReport
    /\ allCapScores' = IF allCapScoresThrow(model, selectedCaps, answersByCap)
                       THEN RenderThrew
                       ELSE [list |-> allCapScoresOf(model, selectedCaps, answersByCap)]
    /\ UNCHANGED <<model, selectedCaps, answersByCap, meta, activeTab, currentCapKey,
                   capIndex, snapshots, storedHash, autoLoad, report, avg100, maturity,
                   exported, now, savedIn, pendingReads>>

NextMetrics == RenderMetrics

SpecMetrics == InitScore /\ [][NextMetrics]_vars

----------------------------------------------------------------------------
(* Specification SpecLens: the scoring pass over questions of any lens *)

\* a question of a lens outside LENSES, and one whose lens is an inherited key
QU == [text |-> "culture survey", lens |-> "Culture", scores |-> StdScores]
QC == [text |-> "ownership", lens |-> "constructor", scores |-> StdScores]

LensQuestionInputs == {QK, QN, QU, QC}

InitLens ==
    /\ model \in {[version |-> "1.3", capabilities |-> <<Cap("alloc", "Allocation", qs)>>] :
                    qs \in UNION {[1..k -> LensQuestionInputs] : k \in 1..MaxQ}}
    /\ selectedCaps = <<>>
    /\ answersByCap \in {("alloc" :> a) : a \in AnswerMaps(MaxQ)}
    /\ meta = DefaultMeta /\ activeTab = "report" /\ currentCapKey = NoKey
    /\ capIndex = 0 /\ snapshots = <<>> /\ storedHash = "" /\ autoLoad = "done"
    /\ report = NoReport /\ allCapScores = NoReport
    /\ avg100 = DblInt(0) /\ maturity = "none"
    /\ exported = <<>> /\ now = 0 /\ savedIn = <<>> /\ pendingReads = <<>>

\* the first render of the report tab
RenderLens ==
    /\ report = NoReport
    /\ report' = computeReport(model, selectedCaps, answersByCap)
    /\ UNCHANGED <<model, selectedCaps, answersByCap, meta, activeTab, currentCapKey,
                   capIndex, snapshots, storedHash, autoLoad, allCapScores, avg100,
                   maturity, exported, now, savedIn, pendingReads>>

NextLens == RenderLens

SpecLens == InitLens /\ [][NextLens]_vars

----------------------------------------------------------------------------
(* Values read from files: the text of a file and what JSON.parse makes of it *)

\* text that is no JSON (JSON.parse throws), the JSON values null and 42, an
\* object without `capabilities`, and an object whose `capabilities` is a
\* non-empty string (written as the field capabilities_string)
JsonSyntaxError       == [syntaxError |-> TRUE]
JsonNull              == [null |-> TRUE]
JsonNumber            == [number |-> 42]
ObjNoCapabilities     == [version |-> "1.3"]
ObjCapabilitiesString == [version |-> "1.3", capabilities_string |-> "alloc,budget"]

\* JSON.parse(text) throws
parseThrows(f) == "syntaxError" \in DOMAIN f

\* data && typeof data === "object" (arrays included)
isObjectValue(f) ==
    /\ ~parseThrows(f)
    /\ f # JsonNull
    /\ "number" \notin DOMAIN f

\* Array.isArray(data.capabilities)
hasCapabilitiesArray(f) == isObjectValue(f) /\ "capabilities" \in DOMAIN f

\* obj?.capabilities is truthy
hasCapabilitiesTruthy(f) ==
    /\ isObjectValue(f)
    /\ ("capabilities" \in DOMAIN f \/ "capabilities_string" \in DOMAIN f)

----------------------------------------------------------------------------
(* The session of the report variant (part_002): state transitions *)

\* the models a session loads: ModelA has a capability without questions,
\* ModelB has no version and reuses the keys with other question lists
ModelA ==
    [version |-> "1.3",
     capabilities |-> <<Cap("alloc", "Allocation", <<QK, QP>>),
                        Cap("budget", "Budgeting", <<>>)>>]
ModelB ==
    [version |-> "",
     capabilities |-> <<Cap("alloc", "Allocation", <<QN>>),
                        Cap("budget", "Budgeting", <<QK>>)>>]

ModelFileInputs   == {ModelA, ModelB}
PublicModelInputs == {ModelA}

\* the levels the radio buttons of a test run pick
SessionLevels == {"Walk", "Fly"}

MetaAcme == [date |-> "2025-08-08", customer |-> "ACME", assessor |-> "stijn"]

\* answers files: an object with any of selectedCaps, meta, answersByCap.
\* FileFull names a capability key no model has, a level no scores table has
\* and a question index no capability has.
FileFull ==
    ("selectedCaps" :> <<"budget", "legacy">>) @@ ("meta" :> MetaAcme) @@
    ("answersByCap" :> (("alloc" :> ((0 :> "Bogus") @@ (7 :> "Fly"))) @@
                        ("legacy" :> (0 :> "Fly"))))
FileAnswersOnly == ("answersByCap" :> ("alloc" :> ((0 :> "Fly") @@ (1 :> "Fly"))))
FileNoSelection == ("selectedCaps" :> <<>>)
\* a JSON value without any of the three fields (a number, {}, [])
FileNoFields    == <<>>

AnswerFileInputs == {FileFull, FileAnswersOnly, FileNoSelection, FileNoFields}

\* snapshot entries left in localStorage by earlier sessions; SnapBare is an
\* entry without selectedCaps / answersByCap / meta
SnapOld ==
    ("id" :> "s1") @@ ("selectedCaps" :> <<"alloc", "retired">>) @@
    ("answersByCap" :> (("alloc" :> (1 :> "Walk")) @@ ("budget" :> (0 :> "Fly")))) @@
    ("meta" :> MetaAcme)
SnapBare == ("id" :> "s2")

SnapshotListInputs == {<<SnapOld, SnapBare>>}
SnapIdInputs       == {"s1", "s2"}

TABS == {"setup", "assessment", "report", "admin"}

\* mutant: the answers of the capability are replaced by the new answer alone
setAnswerUpdateReplacingCap(prev, capKey, qIndex, level) ==
    [k \in DOMAIN prev \cup {capKey} |-> IF k = capKey THEN (qIndex :> level) ELSE prev[k]]

\* setAnswer's updater:
\* ({ ...prev, [capKey]: { ...(prev[capKey] || {}), [qIndex]: level } })
setAnswerUpdate(prev, capKey, qIndex, level) ==
    LET old == IF capKey \in DOMAIN prev THEN prev[capKey] ELSE <<>>
    IN  [k \in DOMAIN prev \cup {capKey} |->
            IF k = capKey
            THEN [i \in DOMAIN old \cup {qIndex} |-> IF i = qIndex THEN level ELSE old[i]]
            ELSE prev[k]]

\* toggleCap's updater: prev.includes(key) ? prev.filter(x => x !== key) : [...prev, key]
toggleCapUpdate(prev, key) ==
    IF Includes(prev, key) THEN SelectSeq(prev, LAMBDA x : x # key)
    ELSE Append(prev, key)

\* the effect that keeps currentCapKey in sync with the selection
syncCurrentCapKey(m, sel, cur) ==
    LET safe == selectedCapsSafe(m, sel)
    IN  IF Len(safe) # 0
        THEN IF cur = NoKey \/ cur = "" \/ ~Includes(safe, cur) THEN safe[1] ELSE cur
        ELSE NoKey

\* allCaps.find(c => c.key === currentCapKey) exists
HasCurrentCap == \E i \in 1..Len(allCaps(model)) : allCaps(model)[i].key = currentCapKey

\* allCaps.find(c => c.key === currentCapKey)
currentCap ==
    allCaps(model)[CHOOSE i \in 1..Len(allCaps(model)) :
                      /\ allCaps(model)[i].key = currentCapKey
                      /\ \A j \in 1..(i - 1) : allCaps(model)[j].key # currentCapKey]

\* a selection key that contains the separator of join('|')
BarKey == "alloc|budget"

\* k.split('|'): the pieces of a key between separators
splitBar(k) == IF k = BarKey THEN <<"alloc", "budget">> ELSE <<k>>

RECURSIVE joinBar(_)
\* keys.join('|'), represented by its sequence of separator-free pieces (two
\* joined strings are equal exactly when their pieces are; [].join is "")
joinBar(keys) ==
    IF keys = <<>> THEN <<"">>
    ELSE IF Len(keys) = 1 THEN splitBar(keys[1])
         ELSE splitBar(keys[1]) \o joinBar(Tail(keys))

\* currentCap ? currentCap.questions.length : 0
currentTotalQ == IF HasCurrentCap THEN Len(currentCap.questions) ELSE 0

\* currentCap ? Object.keys(answersByCap[currentCapKey] || {}).length : 0
currentAnswered ==
    IF HasCurrentCap /\ currentCapKey \in DOMAIN answersByCap
    THEN Cardinality(DOMAIN answersByCap[currentCapKey])
    ELSE 0

\* the `report` useMemo with deps [model, selectedCapsSafe.join("|"),
\* JSON.stringify(answersByCap)] in a render where `model` is the object of
\* the last render: the value of the last render (sel0, answers0 -> report0)
\* is kept when no dep changed.  The JSON text of the answers is compared by
\* content: where the content is equal and the code recomputes, it computes
\* the same value.
reportMemo(m, sel0, answers0, report0, sel, answers) ==
    IF /\ joinBar(selectedCapsSafe(m, sel)) = joinBar(selectedCapsSafe(m, sel0))
       /\ answers = answers0
    THEN report0
    ELSE computeReport(m, sel, answers)

\* the re-render that follows a handler that does not call setModel: the
\* report useMemo, and the sync effect (deps [model,
\* selectedCapsSafe.join('|')]) when a dep changed, given currentCapKey as
\* the handler left it
Rerender(cur) ==
    /\ Mounted
    /\ report' = reportMemo(model, selectedCaps, answersByCap, report,
                            selectedCaps', answersByCap')
    /\ currentCapKey' =
           IF \/ report' = RenderThrew
              \/ joinBar(selectedCapsSafe(model, selectedCaps'))
                     = joinBar(selectedCapsSafe(model, selectedCaps))
           THEN cur
           ELSE syncCurrentCapKey(model, selectedCaps', cur)
    /\ UNCHANGED <<capIndex, allCapScores, avg100, maturity, exported, now, savedIn>>

\* the re-render that follows setModel(obj): obj is a new object, so the
\* useMemo recomputes and the sync effect runs
RerenderNewModel(cur) ==
    /\ Mounted
    /\ report' = computeReport(model', selectedCaps', answersByCap')
    /\ currentCapKey' = IF report' = RenderThrew THEN cur
                        ELSE syncCurrentCapKey(model', selectedCaps', cur)
    /\ UNCHANGED <<capIndex, allCapScores, avg100, maturity, exported, now, savedIn>>

Init ==
    /\ model = NoModel
    /\ selectedCaps = <<>>
    /\ answersByCap = <<>>
    /\ meta = DefaultMeta
    /\ activeTab = "setup"
    /\ currentCapKey = NoKey
    /\ capIndex = 0
    /\ snapshots \in SnapshotListInputs
    /\ storedHash \in {NoModel} \cup PublicModelInputs
    /\ autoLoad = "fetching"
    /\ report = NoReport
    /\ allCapScores = NoReport
    /\ avg100 = DblInt(0)
    /\ maturity = "none"
    /\ exported = <<>> /\ now = 0 /\ savedIn = <<>> /\ pendingReads = <<>>

\* the session state a handler sets through the set-state functions of the
\* component, with the memo values of its renders
componentState == <<model, selectedCaps, answersByCap, meta, activeTab, currentCapKey,
                    capIndex, report, allCapScores, avg100, maturity>>

\* the auto-load effect: fetch('/model.json') failed, or the file has no
\* capabilities; the continuation returns, also after the component unmounted
AutoLoadFail ==
    /\ autoLoad = "fetching"
    /\ autoLoad' = "done"
    /\ UNCHANGED pendingReads
    /\ IF Mounted
       THEN /\ UNCHANGED <<model, selectedCaps, answersByCap, meta, activeTab, snapshots,
                           storedHash>>
            /\ Rerender(currentCapKey)
       ELSE UNCHANGED <<componentState, snapshots, storedHash, exported, now, savedIn>>

\* the auto-load effect: the fetch resolved with a model; `model` was null when
\* the effect started.  The content hash is modelled by the content itself.
\* The continuation runs whether or not the component is still mounted: after
\* a render threw, the set-state calls are dropped and localStorage is written.
AutoLoadDone(obj) ==
    /\ autoLoad = "fetching"
    /\ autoLoad' = "done"
    /\ UNCHANGED pendingReads
    /\ storedHash' = IF obj # storedHash THEN obj ELSE storedHash
    /\ IF Mounted
       THEN /\ model' = obj
            /\ IF obj # storedHash
               THEN /\ selectedCaps' = modelKeys(obj)
                    /\ answersByCap' = <<>>
               ELSE UNCHANGED <<selectedCaps, answersByCap>>
            /\ UNCHANGED <<meta, activeTab, snapshots>>
            /\ RerenderNewModel(currentCapKey)
       ELSE UNCHANGED <<componentState, snapshots, exported, now, savedIn>>

\* s without its i-th element
RemoveAt(s, i) == SubSeq(s, 1, i - 1) \o SubSeq(s, i + 1, Len(s))

\* importJSONFile(file, handler) up to reader.readAsText(file): the `Import
\* Model` / `Import Answers` input of the admin tab was given a file with the
\* text f; the handler runs later, in reader.onload
StartRead(h, f) ==
    /\ Mounted
    /\ activeTab = "admin"
    /\ Len(pendingReads) < MaxPending
    /\ pendingReads' = Append(pendingReads, [handler |-> h, value |-> f])
    /\ UNCHANGED <<componentState, snapshots, storedHash, autoLoad, exported, now, savedIn>>

\* importModel(file) with a file that holds f
PickModelFile(f) == StartRead("importModel", f)

\* importAnswers(file) with a file that holds f
PickAnswersFile(f) == StartRead("importAnswers", f)

\* reader.onload of a read of f that handler h started: the read is no longer
\* pending; reads of different files complete in any order
ReaderOnload(h, f) ==
    \E i \in 1..Len(pendingReads) :
        /\ pendingReads[i].handler = h
        /\ pendingReads[i].value = f
        /\ pendingReads' = RemoveAt(pendingReads, i)

\* reader.onload after a render threw: alerts and dropped set-state calls
OnloadUnmounted ==
    UNCHANGED <<componentState, snapshots, storedHash, autoLoad, exported, now, savedIn>>

\* mutant: the import empties the answers
ImportModelPurging(obj) ==
    /\ model' = obj
    /\ selectedCaps' = modelKeys(obj)
    /\ answersByCap' = <<>>
    /\ activeTab' = "setup"
    /\ UNCHANGED <<meta, snapshots, storedHash, autoLoad>>
    /\ RerenderNewModel(currentCapKey)

\* the handler of importModel with an object that has `capabilities`
ImportModel(obj) ==
    /\ model' = obj
    /\ selectedCaps' = modelKeys(obj)
    /\ activeTab' = "setup"
    /\ UNCHANGED <<answersByCap, meta, snapshots, storedHash, autoLoad>>
    /\ RerenderNewModel(currentCapKey)

\* the handler of importModel with a value without `capabilities`: alert,
\* nothing changes
ImportModelRejected ==
    /\ UNCHANGED <<model, selectedCaps, answersByCap, meta, activeTab, snapshots,
                   storedHash, autoLoad>>
    /\ Rerender(currentCapKey)

\* the handler of importAnswers with a parsed JSON value that is not null
ImportAnswers(obj) ==
    /\ selectedCaps' = IF "selectedCaps" \in DOMAIN obj THEN obj["selectedCaps"]
                       ELSE selectedCaps
    /\ meta' = IF "meta" \in DOMAIN obj THEN obj["meta"] ELSE meta
    /\ answersByCap' = IF "answersByCap" \in DOMAIN obj THEN obj["answersByCap"]
                       ELSE answersByCap
    /\ activeTab' = "report"
    /\ UNCHANGED <<model, snapshots, storedHash, autoLoad>>
    /\ Rerender(currentCapKey)

\* importAnswers with text that is no JSON, or with null (obj.selectedCaps
\* throws): alert, nothing changes
ImportAnswersRejected ==
    /\ UNCHANGED <<model, selectedCaps, answersByCap, meta, activeTab, snapshots,
                   storedHash, autoLoad>>
    /\ Rerender(currentCapKey)

\* what a model file can hold: the two models, text that is no JSON, null, a
\* number, an object without `capabilities`, an object whose `capabilities`
\* is a string
ModelFileValues ==
    ModelFileInputs \cup {JsonSyntaxError, JsonNull, JsonNumber, ObjNoCapabilities,
                          ObjCapabilitiesString}

\* reader.onload of importModel(file) with the text f.  JSON.parse throws or
\* `!obj?.capabilities` holds: alert, nothing is set.  Otherwise setModel(obj)
\* and setModelSource are queued and obj.capabilities.map runs: on an array
\* the handler completes; on a value without `map` it throws into the catch of
\* importJSONFile, after which the queued setModel(obj) is applied and the
\* next render throws at allCaps.filter (there is no error boundary).
ImportModelFile(f) ==
    /\ ReaderOnload("importModel", f)
    /\ IF ~Mounted THEN OnloadUnmounted
       ELSE IF parseThrows(f) \/ ~hasCapabilitiesTruthy(f)
       THEN ImportModelRejected
       ELSE IF hasCapabilitiesArray(f)
            THEN ImportModel(f)
            ELSE /\ model' = f
                 /\ report' = RenderThrew
                 /\ UNCHANGED <<selectedCaps, answersByCap, meta, activeTab, currentCapKey,
                                capIndex, snapshots, storedHash, autoLoad, allCapScores,
                                avg100, maturity, exported, now, savedIn>>

\* what an answers file can hold: the answers files, text that is no JSON,
\* null, a number
AnswerFileValues == AnswerFileInputs \cup {JsonSyntaxError, JsonNull, JsonNumber}

\* reader.onload of importAnswers(file) with the text f.  JSON.parse throws
\* (catch of importJSONFile) or the value is null (obj.selectedCaps throws
\* into the catch of importAnswers): alert, nothing is set.  Any other value
\* runs the three `if`s and setActiveTab("report"); a number has none of the
\* fields.
ImportAnswersFile(f) ==
    /\ ReaderOnload("importAnswers", f)
    /\ IF ~Mounted THEN OnloadUnmounted
       ELSE IF parseThrows(f) \/ "null" \in DOMAIN f
       THEN ImportAnswersRejected
       ELSE ImportAnswers(f)

\* restoreSnapshot(id)
RestoreSnapshot(id) ==
    /\ Mounted
    /\ UNCHANGED pendingReads
    /\ activeTab = "admin"
    /\ IF \E i \in 1..Len(snapshots) : snapshots[i]["id"] = id
       THEN LET found == snapshots[CHOOSE i \in 1..Len(snapshots) :
                                      /\ snapshots[i]["id"] = id
                                      /\ \A j \in 1..(i - 1) : snapshots[j]["id"] # id]
            IN  /\ selectedCaps' = IF "selectedCaps" \in DOMAIN found
                                   THEN found["selectedCaps"] ELSE <<>>
                /\ answersByCap' = IF "answersByCap" \in DOMAIN found
                                   THEN found["answersByCap"] ELSE <<>>
                /\ meta' = IF "meta" \in DOMAIN found THEN found["meta"] ELSE meta
                /\ activeTab' = "report"
       ELSE UNCHANGED <<selectedCaps, answersByCap, meta, activeTab>>
    /\ UNCHANGED <<model, snapshots, storedHash, autoLoad>>
    /\ Rerender(currentCapKey)

\* deleteSnapshot(id) from the Delete button of a row of the history table
DeleteSnapshot(id) ==
    /\ Mounted
    /\ UNCHANGED pendingReads
    /\ activeTab = "admin"
    /\ \E i \in 1..Len(snapshots) : snapshots[i]["id"] = id
    /\ snapshots' = SelectSeq(snapshots, LAMBDA x : x["id"] # id)
    /\ UNCHANGED <<model, selectedCaps, answersByCap, meta, activeTab, storedHash, autoLoad>>
    /\ Rerender(currentCapKey)

\* toggleCap(cap.key) from the checkbox of a capability of the model
ToggleCap(key) ==
    /\ Mounted
    /\ UNCHANGED pendingReads
    /\ activeTab = "setup"
    /\ Includes(modelKeys(model), key)
    /\ selectedCaps' = toggleCapUpdate(selectedCaps, key)
    /\ UNCHANGED <<model, answersByCap, meta, activeTab, snapshots, storedHash, autoLoad>>
    /\ Rerender(currentCapKey)

SelectAll ==
    /\ Mounted
    /\ model # NoModel
    /\ UNCHANGED pendingReads
    /\ activeTab = "setup"
    /\ selectedCaps' = modelKeys(model)
    /\ UNCHANGED <<model, answersByCap, meta, activeTab, snapshots, storedHash, autoLoad>>
    /\ Rerender(currentCapKey)

ClearAll ==
    /\ Mounted
    /\ model # NoModel
    /\ UNCHANGED pendingReads
    /\ activeTab = "setup"
    /\ selectedCaps' = <<>>
    /\ UNCHANGED <<model, answersByCap, meta, activeTab, snapshots, storedHash, autoLoad>>
    /\ Rerender(currentCapKey)

\* setAnswer(currentCap.key, idx, level) from a radio button of the assessment tab
SetAnswer(idx, level) ==
    /\ Mounted
    /\ UNCHANGED pendingReads
    /\ activeTab = "assessment"
    /\ HasCurrentCap
    /\ idx \in 0..(Len(currentCap.questions) - 1)
    /\ answersByCap' = setAnswerUpdate(answersByCap, currentCap.key, idx, level)
    /\ UNCHANGED <<model, selectedCaps, meta, activeTab, snapshots, storedHash, autoLoad>>
    /\ Rerender(currentCapKey)

\* the capability picker: setCurrentCapKey(e.target.value)
PickCap(key) ==
    /\ Mounted
    /\ model # NoModel
    /\ UNCHANGED pendingReads
    /\ activeTab = "assessment"
    /\ Includes(selectedCapsSafe(model, selectedCaps), key)
    /\ UNCHANGED <<model, selectedCaps, answersByCap, meta, activeTab, snapshots,
                   storedHash, autoLoad>>
    /\ Rerender(key)

\* gotoPrev's target: idx <= 0 ? length - 1 : idx - 1, with idx the indexOf
\* of the current key (0-based; safe is not empty)
gotoPrevKey(safe, cur) ==
    LET idx     == IndexOf(safe, cur)
        nextIdx == IF idx <= 0 THEN Len(safe) - 1 ELSE idx - 1
    IN  safe[nextIdx + 1]

\* gotoNext's target: idx === -1 ? 0 : (idx + 1) % length
gotoNextKey(safe, cur) ==
    LET idx     == IndexOf(safe, cur)
        nextIdx == IF idx = -1 THEN 0 ELSE (idx + 1) % Len(safe)
    IN  safe[nextIdx + 1]

gotoPrev ==
    /\ Mounted
    /\ model # NoModel
    /\ UNCHANGED pendingReads
    /\ activeTab = "assessment"
    /\ LET safe == selectedCapsSafe(model, selectedCaps)
       IN  /\ Len(safe) # 0
           /\ UNCHANGED <<model, selectedCaps, answersByCap, meta, activeTab, snapshots,
                          storedHash, autoLoad>>
           /\ Rerender(gotoPrevKey(safe, currentCapKey))

gotoNext ==
    /\ Mounted
    /\ model # NoModel
    /\ UNCHANGED pendingReads
    /\ activeTab = "assessment"
    /\ LET safe == selectedCapsSafe(model, selectedCaps)
       IN  /\ Len(safe) # 0
           /\ UNCHANGED <<model, selectedCaps, answersByCap, meta, activeTab, snapshots,
                          storedHash, autoLoad>>
           /\ Rerender(gotoNextKey(safe, currentCapKey))

\* the tab buttons of the header
SetActiveTab(t) ==
    /\ Mounted
    /\ UNCHANGED pendingReads
    /\ activeTab' = t
    /\ UNCHANGED <<model, selectedCaps, answersByCap, meta, snapshots, storedHash, autoLoad>>
    /\ Rerender(currentCapKey)

Next ==
    \/ AutoLoadFail
    \/ \E obj \in PublicModelInputs : AutoLoadDone(obj)
    \/ \E f \in ModelFileInputs : PickModelFile(f)
    \/ \E f \in ModelFileInputs : ImportModelFile(f)
    \/ \E f \in AnswerFileInputs : PickAnswersFile(f)
    \/ \E f \in AnswerFileInputs : ImportAnswersFile(f)
    \/ \E id \in SnapIdInputs : RestoreSnapshot(id)
    \/ \E key \in {"alloc", "budget"} : ToggleCap(key)
    \/ SelectAll
    \/ ClearAll
    \/ \E idx \in 0..(MaxQ - 1), level \in SessionLevels : SetAnswer(idx, level)
    \/ \E key \in {"alloc", "budget", "legacy", "retired"} : PickCap(key)
    \/ gotoPrev
    \/ gotoNext
    \/ \E t \in TABS : SetActiveTab(t)

Spec == Init /\ [][Next]_vars

----------------------------------------------------------------------------
(* The session of the report variant with model files of any content *)

NextImport ==
    \/ AutoLoadFail
    \/ \E obj \in PublicModelInputs : AutoLoadDone(obj)
    \/ \E f \in ModelFileValues : PickModelFile(f)
    \/ \E f \in ModelFileValues : ImportModelFile(f)
    \/ \E f \in AnswerFileValues : PickAnswersFile(f)
    \/ \E f \in AnswerFileValues : ImportAnswersFile(f)
    \/ \E key \in {"alloc", "budget"} : ToggleCap(key)
    \/ \E idx \in 0..(MaxQ - 1) : SetAnswer(idx, "Walk")
    \/ \E t \in TABS : SetActiveTab(t)

SpecImport == Init /\ [][NextImport]_vars

----------------------------------------------------------------------------
(* The session of the capIndex variant (App.jsx): state transitions *)

\* questions with the option texts their radio buttons show; a level without
\* an option text has no radio button
OptWalkFly == ("Walk" :> "in place for most spend") @@ ("Fly" :> "enforced everywhere")

AK  == [text |-> "tagging policy", lens |-> "Knowledge", options |-> OptWalkFly,
        scores |-> StdScores]
AP  == [text |-> "showback cadence", lens |-> "Process", options |-> OptWalkFly,
        scores |-> StdScores]
\* AK after an edit of its text
AK2 == [text |-> "tagging policy v2", lens |-> "Knowledge", options |-> OptWalkFly,
        scores |-> StdScores]

\* model files: AppModelB is AppModelA edited (AP moved to the front, the text
\* of AK changed)
AppModelA ==
    [version |-> "1.3",
     capabilities |-> <<Cap("alloc", "Allocation", <<AK, AP>>),
                        Cap("budget", "Budgeting", <<AK>>)>>]
AppModelB ==
    [version |-> "1.4",
     capabilities |-> <<Cap("alloc", "Allocation", <<AP, AK2>>),
                        Cap("budget", "Budgeting", <<AK>>)>>]

AppModelFileInputs ==
    {AppModelA, AppModelB, JsonSyntaxError, JsonNull, JsonNumber, ObjNoCapabilities,
     ObjCapabilitiesString}

\* one item of an exported capability; chosenLevel "" is JSON null
Item(question, lens, chosenLevel, answerText) ==
    [question |-> question, lens |-> lens, chosenLevel |-> chosenLevel,
     answerText |-> answerText]

\* an answers file exported before the model was edited: the items of "alloc"
\* in another order, one item of a question no model has, one unanswered item
\* and a capability no model has
PayloadOld ==
    ("selectedCaps" :> <<"alloc">>) @@
    ("answers" :>
        (("alloc" :> [name  |-> "Allocation",
                      items |-> <<Item("showback cadence", "Process", "Fly",
                                       "enforced everywhere"),
                                  Item("retired question", "Metrics", "Walk", "Walk"),
                                  Item("tagging policy", "Knowledge", "Walk",
                                       "in place for most spend")>>]) @@
         ("budget" :> [name  |-> "Budgeting",
                       items |-> <<Item("tagging policy", "Knowledge", "", "")>>]) @@
         ("legacy" :> [name  |-> "Legacy",
                       items |-> <<Item("tagging policy", "Knowledge", "Fly", "Fly")>>])))

AppAnswerFileInputs ==
    {PayloadOld, FileAnswersOnly, JsonSyntaxError, JsonNull, JsonNumber}

APP_TABS == {"setup", "assessment", "report"}

\* `cap_${capIndex}`
FallbackKeys == <<"cap_0", "cap_1", "cap_2">>

\* selectedList[capIndex] exists
HasCapability(m, sel, ci) == ci < Len(selectedList(m, sel))

\* capability?.key || `cap_${capIndex}`
capKeyOf(m, sel, ci) ==
    IF HasCapability(m, sel, ci) THEN selectedList(m, sel)[ci + 1].key
    ELSE FallbackKeys[ci + 1]

\* mutant: the reset empties the whole store
resetCurrentUpdateAll(prev, capKey) == (capKey :> <<>>)

\* resetCurrent's updater: ({ ...prev, [capKey]: {} })
resetCurrentUpdate(prev, capKey) ==
    [k \in DOMAIN prev \cup {capKey} |-> IF k = capKey THEN <<>> ELSE prev[k]]

\* the capIndex variant's buildAnswersJSON() without exportedAt, as
\* JSON.stringify writes it and JSON.parse reads it back
appBuildAnswersJSON(m, sel, answers) ==
    LET list == selectedList(m, sel)
        item(cap, i) ==
            LET q   == cap.questions[i]
                lvl == IF cap.key \in DOMAIN answers /\ (i - 1) \in DOMAIN answers[cap.key]
                       THEN answers[cap.key][i - 1] ELSE ""
            IN  Item(q.text, q.lens, lvl,
                     IF lvl = "" THEN ""
                     ELSE IF lvl \in DOMAIN q.options THEN q.options[lvl] ELSE lvl)
    IN  ("modelKeys" :> modelKeys(m)) @@
        ("selectedCaps" :> sel) @@
        ("answers" :>
            [k \in {list[i].key : i \in 1..Len(list)} |->
                LET cap == list[CHOOSE i \in 1..Len(list) :
                                   /\ list[i].key = k
                                   /\ \A j \in (i + 1)..Len(list) : list[j].key # k]
                IN  [name  |-> cap.name,
                     items |-> [i \in 1..Len(cap.questions) |-> item(cap, i)]]])

\* (payload.items || []).find(it => it.question === q.text) exists
HasItem(payload, text) ==
    /\ "items" \in DOMAIN payload
    /\ \E n \in 1..Len(payload.items) : payload.items[n].question = text

\* (payload.items || []).find(it => it.question === q.text)
findItem(payload, text) ==
    payload.items[CHOOSE n \in 1..Len(payload.items) :
                     /\ payload.items[n].question = text
                     /\ \A j \in 1..(n - 1) : payload.items[j].question # text]

\* mutant: the items are matched by position instead of by text
mergedMapByIndex(m, key, payload) ==
    IF (\E i \in 1..Len(allCaps(m)) : allCaps(m)[i].key = key) /\ "items" \in DOMAIN payload
    THEN LET cap == allCaps(m)[CHOOSE i \in 1..Len(allCaps(m)) : allCaps(m)[i].key = key]
         IN  [idx \in {i - 1 : i \in {n \in 1..Len(cap.questions) :
                                         /\ n <= Len(payload.items)
                                         /\ payload.items[n].chosenLevel # ""}} |->
                 payload.items[idx + 1].chosenLevel]
    ELSE <<>>

\* importAnswers' `map` for one entry of data.answers
mergedMap(m, key, payload) ==
    IF \E i \in 1..Len(allCaps(m)) : allCaps(m)[i].key = key
    THEN LET cap == allCaps(m)[CHOOSE i \in 1..Len(allCaps(m)) :
                                  /\ allCaps(m)[i].key = key
                                  /\ \A j \in 1..(i - 1) : allCaps(m)[j].key # key]
             hit(i) == /\ HasItem(payload, cap.questions[i].text)
                       /\ findItem(payload, cap.questions[i].text).chosenLevel # ""
         IN  [idx \in {i - 1 : i \in {n \in 1..Len(cap.questions) : hit(n)}} |->
                 findItem(payload, cap.questions[idx + 1].text).chosenLevel]
    ELSE <<>>

\* importAnswers' `merged`
mergedAnswers(m, data) ==
    [key \in DOMAIN data["answers"] |-> mergedMap(m, key, data["answers"][key])]

\* the re-render that follows a handler: the allCapScores useMemo
AppRerender ==
    /\ Mounted
    /\ allCapScores' = IF allCapScoresThrow(model', selectedCaps', answersByCap')
                       THEN RenderThrew
                       ELSE [list |-> allCapScoresOf(model', selectedCaps', answersByCap')]
    /\ UNCHANGED <<meta, currentCapKey, snapshots, storedHash, autoLoad, report, avg100,
                   maturity, exported, now, savedIn>>

InitApp ==
    /\ model = [capabilities |-> <<>>]
    /\ answersByCap = <<>>
    /\ selectedCaps = <<>>
    /\ activeTab = "setup"
    /\ capIndex = 0
    /\ allCapScores = [list |-> <<>>]
    /\ meta = DefaultMeta /\ currentCapKey = NoKey /\ snapshots = <<>>
    /\ storedHash = "" /\ autoLoad = "done" /\ report = NoReport
    /\ avg100 = DblInt(0) /\ maturity = "none"
    /\ exported = <<>> /\ now = 0 /\ savedIn = <<>> /\ pendingReads = <<>>

\* importModel(file) up to reader.readAsText(file), from the `Import Model`
\* input of the header
AppPickModelFile(f) ==
    /\ Mounted
    /\ Len(pendingReads) < MaxPending
    /\ pendingReads' = Append(pendingReads, [handler |-> "importModel", value |-> f])
    /\ UNCHANGED <<componentState, snapshots, storedHash, autoLoad, exported, now, savedIn>>

\* importAnswers(file) up to reader.readAsText(file), from the `Import
\* Answers` input of the header; reader.onload closes over the allCaps of the
\* render that called importAnswers
AppPickAnswersFile(f) ==
    /\ Mounted
    /\ Len(pendingReads) < MaxPending
    /\ pendingReads' = Append(pendingReads, [handler |-> "importAnswers", value |-> f,
                                             allCaps |-> allCaps(model)])
    /\ UNCHANGED <<componentState, snapshots, storedHash, autoLoad, exported, now, savedIn>>

MaxAppExports == 1    \* files the capIndex session writes in one run

\* the object exportAnswers serialises in the capIndex variant:
\* buildAnswersJSON() with exportedAt: new Date().toISOString() read at time t
appExportedFile(m, sel, answers, t) ==
    appBuildAnswersJSON(m, sel, answers) @@ ("exportedAt" :> t)

\* exportAnswers() / copyAnswers() from the buttons of the header: the file is
\* written, the session state is not touched; the state the file was built in
\* is kept next to it
AppExportAnswers ==
    /\ Mounted
    /\ Len(exported) < MaxAppExports
    /\ exported' = Append(exported,
                          [state |-> [model |-> model, selectedCaps |-> selectedCaps,
                                      answersByCap |-> answersByCap, meta |-> meta],
                           file  |-> appExportedFile(model, selectedCaps, answersByCap,
                                                     now)])
    /\ UNCHANGED <<componentState, snapshots, storedHash, autoLoad, now, savedIn,
                   pendingReads>>

\* reader.onload of importModel(file) with the text f
AppImportModel(f) ==
    /\ ReaderOnload("importModel", f)
    /\ IF ~Mounted THEN OnloadUnmounted
       ELSE /\ IF ~parseThrows(f) /\ hasCapabilitiesArray(f)
               THEN /\ model' = [capabilities |-> f.capabilities]
                    /\ selectedCaps' = [i \in 1..Len(f.capabilities) |->
                                           f.capabilities[i].key]
                    /\ answersByCap' = <<>>
                    /\ capIndex' = 0
                    /\ activeTab' = "setup"
               ELSE UNCHANGED <<model, selectedCaps, answersByCap, capIndex, activeTab>>
            /\ AppRerender

\* reader.onload of the i-th pending read, started by importAnswers(file): the
\* answers are matched against the allCaps the handler closed over
AppImportAnswersAt(i) ==
    /\ i \in 1..Len(pendingReads)
    /\ pendingReads[i].handler = "importAnswers"
    /\ pendingReads' = RemoveAt(pendingReads, i)
    /\ IF ~Mounted THEN OnloadUnmounted
       ELSE LET f == pendingReads[i].value
            IN  /\ IF ~parseThrows(f) /\ isObjectValue(f)
                   THEN /\ answersByCap' =
                               IF "answers" \in DOMAIN f
                               THEN mergedAnswers([capabilities |-> pendingReads[i].allCaps], f)
                               ELSE answersByCap
                        /\ selectedCaps' = IF "selectedCaps" \in DOMAIN f
                                           THEN f["selectedCaps"] ELSE selectedCaps
                   ELSE UNCHANGED <<answersByCap, selectedCaps>>
                /\ UNCHANGED <<model, capIndex, activeTab>>
                /\ AppRerender

\* reader.onload of importAnswers(file) with the text f
AppImportAnswers(f) ==
    \E i \in 1..Len(pendingReads) :
        /\ pendingReads[i].handler = "importAnswers"
        /\ pendingReads[i].value = f
        /\ AppImportAnswersAt(i)

\* buildAnswersJSON() of the capIndex variant wrote the file
IsExportedFile(f) == "modelKeys" \in DOMAIN f

\* reader.onload of an Import Answers with a file the session exported
AppImportExported ==
    \E i \in 1..Len(pendingReads) :
        /\ pendingReads[i].handler = "importAnswers"
        /\ IsExportedFile(pendingReads[i].value)
        /\ AppImportAnswersAt(i)

AppToggleCap(k) ==
    /\ Mounted
    /\ UNCHANGED pendingReads
    /\ activeTab = "setup"
    /\ Includes(modelKeys(model), k)
    /\ selectedCaps' = toggleCapUpdate(selectedCaps, k)
    /\ UNCHANGED <<model, answersByCap, capIndex, activeTab>>
    /\ AppRerender

AppSelectAll ==
    /\ Mounted
    /\ UNCHANGED pendingReads
    /\ activeTab = "setup"
    /\ Len(allCaps(model)) > 0
    /\ selectedCaps' = modelKeys(model)
    /\ UNCHANGED <<model, answersByCap, capIndex, activeTab>>
    /\ AppRerender

AppClearAll ==
    /\ Mounted
    /\ UNCHANGED pendingReads
    /\ activeTab = "setup"
    /\ Len(allCaps(model)) > 0
    /\ selectedCaps' = <<>>
    /\ UNCHANGED <<model, answersByCap, capIndex, activeTab>>
    /\ AppRerender

\* the capability <select> of the assessment tab
AppSetCapIndex(i) ==
    /\ Mounted
    /\ UNCHANGED pendingReads
    /\ activeTab = "assessment"
    /\ i < Len(selectedList(model, selectedCaps))
    /\ capIndex' = i
    /\ UNCHANGED <<model, selectedCaps, answersByCap, activeTab>>
    /\ AppRerender

\* setAnswer(q.id, level) from a radio button of the capability shown
AppSetAnswer(qid, level) ==
    /\ Mounted
    /\ UNCHANGED pendingReads
    /\ activeTab = "assessment"
    /\ HasCapability(model, selectedCaps, capIndex)
    /\ LET cap == selectedList(model, selectedCaps)[capIndex + 1]
       IN  /\ qid < Len(cap.questions)
           /\ level \in DOMAIN cap.questions[qid + 1].options
    /\ answersByCap' = setAnswerUpdate(answersByCap,
                                       capKeyOf(model, selectedCaps, capIndex), qid, level)
    /\ UNCHANGED <<model, selectedCaps, capIndex, activeTab>>
    /\ AppRerender

\* the Reset button of the assessment tab
AppResetCurrent ==
    /\ Mounted
    /\ UNCHANGED pendingReads
    /\ activeTab = "assessment"
    /\ Len(selectedList(model, selectedCaps)) > 0
    /\ answersByCap' = resetCurrentUpdate(answersByCap,
                                          capKeyOf(model, selectedCaps, capIndex))
    /\ UNCHANGED <<model, selectedCaps, capIndex, activeTab>>
    /\ AppRerender

\* the tab buttons, rendered once a model has capabilities
AppSetActiveTab(t) ==
    /\ Mounted
    /\ UNCHANGED pendingReads
    /\ Len(allCaps(model)) > 0
    /\ activeTab' = t
    /\ UNCHANGED <<model, selectedCaps, answersByCap, capIndex>>
    /\ AppRerender

NextApp ==
    \/ \E f \in {AppModelA, AppModelB} : AppPickModelFile(f)
    \/ \E f \in {AppModelA, AppModelB} : AppImportModel(f)
    \/ AppPickAnswersFile(PayloadOld)
    \/ AppImportAnswers(PayloadOld)
    \/ \E k \in {"alloc", "budget"} : AppToggleCap(k)
    \/ AppSelectAll
    \/ AppClearAll
    \/ \E i \in 0..1 : AppSetCapIndex(i)
    \/ \E qid \in 0..(MaxQ - 1), level \in LevelSet : AppSetAnswer(qid, level)
    \/ AppResetCurrent
    \/ \E t \in APP_TABS : AppSetActiveTab(t)

SpecApp == InitApp /\ [][NextApp]_vars

\* the capIndex session in which files are exported and any file written so
\* far is imported back
NextRound ==
    \/ AppPickModelFile(AppModelA)
    \/ AppImportModel(AppModelA)
    \/ AppExportAnswers
    \/ \E j \in 1..Len(exported) : AppPickAnswersFile(exported[j].file)
    \/ AppImportExported
    \/ \E k \in {"alloc", "budget"} : AppToggleCap(k)
    \/ \E qid \in 0..(MaxQ - 1) : AppSetAnswer(qid, "Walk")
    \/ AppResetCurrent
    \/ \E t \in APP_TABS : AppSetActiveTab(t)

SpecRound == InitApp /\ [][NextRound]_vars

\* the capIndex session with files of any content
NextAppFiles ==
    \/ \E f \in AppModelFileInputs : AppPickModelFile(f)
    \/ \E f \in AppModelFileInputs : AppImportModel(f)
    \/ \E f \in AppAnswerFileInputs : AppPickAnswersFile(f)
    \/ \E f \in AppAnswerFileInputs : AppImportAnswers(f)
    \/ \E k \in {"alloc", "budget"} : AppToggleCap(k)
    \/ \E qid \in 0..(MaxQ - 1) : AppSetAnswer(qid, "Walk")
    \/ \E t \in APP_TABS : AppSetActiveTab(t)

SpecAppFiles == InitApp /\ [][NextAppFiles]_vars

\* mutant: the stored selection is written as it is
buildAnswersJSONStoredSelection(m, sel, answers, mt) ==
    ("appName" :> APP_NAME) @@
    ("modelVersion" :> IF m # NoModel /\ m.version # "" THEN m.version
                       ELSE MODEL_VERSION_FALLBACK) @@
    ("meta" :> mt) @@
    ("modelKeys" :> modelKeys(m)) @@
    ("selectedCaps" :> sel) @@
    ("answersByCap" :> answers)

\* buildAnswersJSON() without exportedAt, as JSON.stringify writes it and
\* JSON.parse reads it back (object keys and levels are strings either way)
buildAnswersJSON(m, sel, answers, mt) ==
    ("appName" :> APP_NAME) @@
    ("modelVersion" :> IF m # NoModel /\ m.version # "" THEN m.version
                       ELSE MODEL_VERSION_FALLBACK) @@
    ("meta" :> mt) @@
    ("modelKeys" :> modelKeys(m)) @@
    ("selectedCaps" :> selectedCapsSafe(m, sel)) @@
    ("answersByCap" :> answers)

----------------------------------------------------------------------------
(* The session of the report variant with a selection key that holds a '|' *)

\* an answers file whose selection is the one key "alloc|budget"
FileBarSelection == ("selectedCaps" :> <<BarKey>>)

NextMemo ==
    \/ AutoLoadFail
    \/ \E obj \in PublicModelInputs : AutoLoadDone(obj)
    \/ \E f \in ModelFileInputs : PickModelFile(f)
    \/ \E f \in ModelFileInputs : ImportModelFile(f)
    \/ \E f \in {FileBarSelection, FileAnswersOnly} : PickAnswersFile(f)
    \/ \E f \in {FileBarSelection, FileAnswersOnly} : ImportAnswersFile(f)
    \/ \E id \in SnapIdInputs : RestoreSnapshot(id)
    \/ \E key \in {"alloc", "budget"} : ToggleCap(key)
    \/ SelectAll
    \/ ClearAll
    \/ \E idx \in 0..(MaxQ - 1) : SetAnswer(idx, "Fly")
    \/ \E t \in TABS : SetActiveTab(t)

SpecMemo == Init /\ [][NextMemo]_vars

----------------------------------------------------------------------------
(* The session of the report variant with a selection that repeats a key *)

\* an answers file whose selection lists 'alloc' twice
FileDupSelection == ("selectedCaps" :> <<"alloc", "alloc", "budget">>)

NextNav ==
    \/ AutoLoadFail
    \/ \E obj \in PublicModelInputs : AutoLoadDone(obj)
    \/ \E f \in {FileDupSelection, FileFull} : PickAnswersFile(f)
    \/ \E f \in {FileDupSelection, FileFull} : ImportAnswersFile(f)
    \/ \E key \in {"alloc", "budget"} : ToggleCap(key)
    \/ SelectAll
    \/ ClearAll
    \/ \E key \in {"alloc", "budget", "legacy"} : PickCap(key)
    \/ gotoPrev
    \/ gotoNext
    \/ \E t \in TABS : SetActiveTab(t)

SpecNav == Init /\ [][NextNav]_vars

----------------------------------------------------------------------------
(* The session of the report variant with a model that repeats a key *)

\* a model file with `capabilities` (importModel accepts it) in which two
\* capabilities have the key 'alloc'
ModelDupKeys ==
    [version |-> "1.4",
     capabilities |-> <<Cap("alloc", "Allocation", <<QK, QP>>),
                        Cap("alloc", "Allocation (copy)", <<QK>>),
                        Cap("budget", "Budgeting", <<QP>>)>>]

NextKeys ==
    \/ AutoLoadFail
    \/ \E f \in {ModelA, ModelDupKeys} : PickModelFile(f)
    \/ \E f \in {ModelA, ModelDupKeys} : ImportModelFile(f)
    \/ \E key \in {"alloc", "budget"} : ToggleCap(key)
    \/ SelectAll
    \/ ClearAll
    \/ \E idx \in 0..(MaxQ - 1), level \in SessionLevels : SetAnswer(idx, level)
    \/ \E key \in {"alloc", "budget"} : PickCap(key)
    \/ \E t \in TABS : SetActiveTab(t)

SpecKeys == Init /\ [][NextKeys]_vars

----------------------------------------------------------------------------
(* Exports of the report variant *)

MaxExports == 2    \* files written in one run
MaxNow     == 1    \* how far the clock advances

\* the object exportAnswers serialises: buildAnswersJSON() with
\* exportedAt: new Date().toISOString() read at time t
exportedFile(m, sel, answers, mt, t) ==
    buildAnswersJSON(m, sel, answers, mt) @@ ("exportedAt" :> t)

\* exportAnswers() / copyAnswers(): the file is written, the session state
\* is not touched; the state the file was built in is kept next to it
ExportAnswers ==
    /\ Mounted
    /\ activeTab = "admin"
    /\ Len(exported) < MaxExports
    /\ exported' = Append(exported,
                          [state |-> [model |-> model, selectedCaps |-> selectedCaps,
                                      answersByCap |-> answersByCap, meta |-> meta],
                           file  |-> exportedFile(model, selectedCaps, answersByCap, meta, now)])
    /\ UNCHANGED <<model, selectedCaps, answersByCap, meta, activeTab, currentCapKey,
                   capIndex, snapshots, storedHash, autoLoad, report, allCapScores,
                   avg100, maturity, now, savedIn, pendingReads>>

\* time passes between two events
Tick ==
    /\ now < MaxNow
    /\ now' = now + 1
    /\ UNCHANGED <<model, selectedCaps, answersByCap, meta, activeTab, currentCapKey,
                   capIndex, snapshots, storedHash, autoLoad, report, allCapScores,
                   avg100, maturity, exported, savedIn, pendingReads>>

NextExport ==
    \/ AutoLoadFail
    \/ \E obj \in PublicModelInputs : AutoLoadDone(obj)
    \/ PickModelFile(ModelB)
    \/ ImportModelFile(ModelB)
    \/ \E f \in {FileFull, FileAnswersOnly} : PickAnswersFile(f)
    \/ \E f \in {FileFull, FileAnswersOnly} : ImportAnswersFile(f)
    \/ SetActiveTab("admin")
    \/ ExportAnswers
    \/ Tick

SpecExport == Init /\ [][NextExport]_vars

----------------------------------------------------------------------------
(* Snapshots of the report variant *)

MaxSaves == 1    \* snapshots saved in one run

\* the ids crypto.randomUUID() returns, and an id no entry has
NewSnapIds  == {"n1"}
RestoreIds  == {"n1", "s2", "gone"}

\* mutant: the entry is stored without `meta`
snapshotEntryWithoutMeta(id, t, m, sel, answers, mt) ==
    ("id" :> id) @@ ("ts" :> t) @@
    ("version" :> IF m # NoModel /\ m.version # "" THEN m.version
                  ELSE MODEL_VERSION_FALLBACK) @@
    ("customer" :> mt.customer) @@ ("assessor" :> mt.assessor) @@
    ("selectedCaps" :> selectedCapsSafe(m, sel)) @@
    ("answersByCap" :> answers)

\* the entry saveSnapshot builds, as JSON.stringify stores it and JSON.parse
\* reads it back
snapshotEntry(id, t, m, sel, answers, mt) ==
    ("id" :> id) @@ ("ts" :> t) @@
    ("version" :> IF m # NoModel /\ m.version # "" THEN m.version
                  ELSE MODEL_VERSION_FALLBACK) @@
    ("customer" :> mt.customer) @@ ("assessor" :> mt.assessor) @@
    ("selectedCaps" :> selectedCapsSafe(m, sel)) @@
    ("answersByCap" :> answers) @@
    ("meta" :> mt)

\* saveSnapshot(): list.unshift(entry), no state of the component is set
SaveSnapshot(id) ==
    /\ Mounted
    /\ activeTab = "admin"
    /\ Cardinality(DOMAIN savedIn) < MaxSaves
    /\ \A i \in 1..Len(snapshots) : snapshots[i]["id"] # id
    /\ snapshots' = <<snapshotEntry(id, now, model, selectedCaps, answersByCap, meta)>>
                        \o snapshots
    /\ savedIn' = (id :> [model |-> model, selectedCaps |-> selectedCaps,
                          answersByCap |-> answersByCap, meta |-> meta]) @@ savedIn
    /\ UNCHANGED <<model, selectedCaps, answersByCap, meta, activeTab, currentCapKey,
                   capIndex, storedHash, autoLoad, report, allCapScores, avg100,
                   maturity, exported, now, pendingReads>>

\* the inputs of the setup tab: setMeta(m => ({...m, [field]: value}))
SetMeta(field, value) ==
    /\ Mounted
    /\ UNCHANGED pendingReads
    /\ activeTab = "setup"
    /\ meta' = [meta EXCEPT ![field] = value]
    /\ UNCHANGED <<model, selectedCaps, answersByCap, activeTab, snapshots, storedHash,
                   autoLoad>>
    /\ Rerender(currentCapKey)

NextSnap ==
    \/ AutoLoadFail
    \/ \E obj \in PublicModelInputs : AutoLoadDone(obj)
    \/ \E id \in NewSnapIds : SaveSnapshot(id)
    \/ \E id \in RestoreIds : RestoreSnapshot(id)
    \/ \E id \in RestoreIds : DeleteSnapshot(id)
    \/ \E key \in {"alloc", "budget"} : ToggleCap(key)
    \/ SelectAll
    \/ ClearAll
    \/ \E idx \in 0..(MaxQ - 1) : SetAnswer(idx, "Walk")
    \/ \E value \in {"", "ACME"} : SetMeta("customer", value)
    \/ \E t \in TABS : SetActiveTab(t)

SpecSnap == Init /\ [][NextSnap]_vars

----------------------------------------------------------------------------
(* Vocabulary of the properties, stated on the session state alone *)

\* the capabilities in scope: all of them when the stored selection is empty
ScopedCaps ==
    SelectSeq(allCaps(model),
              LAMBDA c : selectedCaps = <<>> \/ c.key \in Range(selectedCaps))

\* question i (1-based) of capability c has a scoring answer
Answered(c, i) ==
    /\ c.key \in DOMAIN answersByCap
    /\ (i - 1) \in DOMAIN answersByCap[c.key]
    /\ answersByCap[c.key][i - 1] \in DOMAIN c.questions[i].scores

\* the weight of that answer, 0 without one
Weight(c, i) ==
    IF Answered(c, i) THEN c.questions[i].scores[answersByCap[c.key][i - 1]] ELSE 0

\* sum of the weights of the answered questions of c
Total20(c) == SeqSum([i \in 1..Len(c.questions) |-> Weight(c, i)])

\* sum of weights / number of scoring answers of the questions of c with lens l
LensSum(c, l) ==
    SeqSum([i \in 1..Len(c.questions) |-> IF c.questions[i].lens = l THEN Weight(c, i) ELSE 0])
LensAnswered(c, l) ==
    SeqSum([i \in 1..Len(c.questions) |->
               IF c.questions[i].lens = l /\ Answered(c, i) THEN 1 ELSE 0])

\* total / (20 * n) * 100 as the claim states it, for n > 0
Percent(total, n) == DblMulInt(DblDiv(total, 20 * n), 100)

\* the capability score the specification prescribes
Score100(c) == DblMulInt(DblDiv(Total20(c), Max(1, 20 * Len(c.questions))), 100)

\* every question of every in-scope capability is answered with weight 20
AllTwenty ==
    \A i \in 1..Len(ScopedCaps) : \A j \in 1..Len(ScopedCaps[i].questions) :
        Answered(ScopedCaps[i], j) /\ Weight(ScopedCaps[i], j) = 20

\* lens sums and answered counts over all in-scope capabilities
ScopeLensSum(l)      == SeqSum([i \in 1..Len(ScopedCaps) |-> LensSum(ScopedCaps[i], l)])
ScopeLensAnswered(l) == SeqSum([i \in 1..Len(ScopedCaps) |-> LensAnswered(ScopedCaps[i], l)])

\* sum / (20 * answered) * 100, and 0 when nothing is answered
AnsweredOnlyPercent(sum, answered) ==
    IF answered = 0 THEN DblInt(0) ELSE Percent(sum, answered)

----------------------------------------------------------------------------
(* Capability totals (C1) *)

\* C1: every in-scope capability with n questions gets max20 = max(1, 20*n),
\* total = sum of the weights of its answered questions and
\* score = total / max20 * 100, with all n questions in the denominator.
\* Stated of computeCapMetrics (capIndex variant), which the claim also cites.
C1_CapabilityScore ==
    allCapScores # NoReport =>
        /\ Len(allCapScores.list) = Len(ScopedCaps)
        /\ \A i \in 1..Len(ScopedCaps) :
              LET c == ScopedCaps[i]
                  m == allCapScores.list[i].metrics
              IN  /\ m.sum20 = Total20(c)
                  /\ m.max20 = Max(1, 20 * Len(c.questions))
                  /\ m.capScore100 = Score100(c)

\* The same statement holds of the report variant's scoring pass.
Report_CapabilityScore ==
    report # NoReport =>
        /\ Len(report.capTotals) = Len(ScopedCaps)
        /\ \A i \in 1..Len(ScopedCaps) :
              LET c == ScopedCaps[i]
                  e == report.capTotals[i]
              IN  /\ e.capKey = c.key
                  /\ e.sum20 = Total20(c)
                  /\ e.max20 = Max(1, 20 * Len(c.questions))
                  /\ e.capScore100 = Score100(c)
                  /\ (Len(c.questions) = 2 /\ Weight(c, 1) = 15 /\ Weight(c, 2) = 20)
                        => (e.sum20 = 35 /\ e.max20 = 40 /\ e.capScore100 = DblDiv(175, 2))
                  /\ Len(c.questions) = 0
                        => (e.sum20 = 0 /\ e.max20 = 1 /\ e.capScore100 = DblInt(0))

\* the two concrete scenarios of C1 occur in the report variant
Report_CapabilityScoreSeen ==
    /\ report # NoReport
    /\ Len(report.capTotals) = 2
    /\ report.capTotals[1].sum20 = 35 /\ report.capTotals[1].max20 = 40
    /\ report.capTotals[1].capScore100 = DblDiv(175, 2)
    /\ report.capTotals[2].max20 = 1

----------------------------------------------------------------------------
(* Overall score (C2) *)

\* C2: the overall score is the unweighted mean of the capability scores of
\* the in-scope capabilities, 0 when none is in scope; a zero-question
\* capability next to one at 50% gives 25.
C2_OverallMean ==
    report # NoReport =>
        LET k == Len(ScopedCaps)
            overall == report.overallAvgCapScore100
        IN  /\ Len(report.capTotals) = k
            /\ k = 0 => overall = DblInt(0)
            /\ k > 0 => overall =
                   DblDivInt(DblReduceSum(DblInt(0),
                                          [i \in 1..k |-> Score100(ScopedCaps[i])]), k)
            /\ (/\ k = 2
                /\ Len(ScopedCaps[1].questions) > 0
                /\ Score100(ScopedCaps[1]) = DblInt(50)
                /\ Len(ScopedCaps[2].questions) = 0) => overall = DblInt(25)

C2_Witness ==
    /\ report # NoReport
    /\ Len(ScopedCaps) = 2
    /\ Len(ScopedCaps[1].questions) = 2
    /\ Score100(ScopedCaps[1]) = DblInt(50)
    /\ Len(ScopedCaps[2].questions) = 0
    /\ report.overallAvgCapScore100 = DblInt(25)

----------------------------------------------------------------------------
(* Score range over a session (C3) *)

\* 0 <= r <= 100 for a double r
InPercentRange(r) == DblLeq(DblInt(0), r) /\ DblLeq(r, DblInt(100))

\* C3: whatever Answer Store setAnswer, importAnswers and restoreSnapshot
\* leave behind (sparse answers, levels missing from a scores table, indices
\* and capability keys the model does not have), every capability score and
\* the overall score of the report lie in [0, 100].
C3_ScoreRange ==
    report # NoReport =>
        /\ \A i \in 1..Len(report.capTotals) :
              InPercentRange(report.capTotals[i].capScore100)
        /\ InPercentRange(report.overallAvgCapScore100)

\* an imported store with an unknown level and a stray index, completed by a
\* setAnswer, scored at 50
C3_Witness ==
    /\ report # NoReport
    /\ "alloc" \in DOMAIN answersByCap
    /\ DOMAIN answersByCap["alloc"] = {0, 1, 7}
    /\ answersByCap["alloc"][0] = "Bogus"
    /\ Len(report.capTotals) > 0
    /\ report.capTotals[1].capKey = "alloc"
    /\ report.capTotals[1].capScore100 = DblInt(50)

----------------------------------------------------------------------------
(* Default-open scope (C10) *)

\* C10: in every state of a session the capabilities scored and reported are
\* all capabilities of the model when the stored selection is empty, and
\* exactly the model capabilities whose key is in the selection otherwise, in
\* model order; selectedList (capIndex variant) selects the same capabilities.
C10_DefaultOpen ==
    report # NoReport =>
        /\ [i \in 1..Len(report.capTotals) |-> report.capTotals[i].capKey]
              = [i \in 1..Len(ScopedCaps) |-> ScopedCaps[i].key]
        /\ selectedList(model, selectedCaps) = ScopedCaps
        /\ selectedCaps = <<>> =>
              /\ ScopedCaps = allCaps(model)
              /\ Len(report.capTotals) = Len(model.capabilities)
              /\ Len(report.capTotals) > 0
        /\ selectedCaps # <<>> =>
              \A i \in 1..Len(model.capabilities) :
                  (model.capabilities[i].key \in Range(selectedCaps))
                      <=> (\E j \in 1..Len(report.capTotals) :
                              report.capTotals[j].capKey = model.capabilities[i].key)

\* the selection was emptied in a session that has answers, and both
\* capabilities are reported
C10_Witness ==
    /\ report # NoReport
    /\ selectedCaps = <<>>
    /\ answersByCap # <<>>
    /\ Len(report.capTotals) = 2
    /\ report.capTotals[1].capKey = "alloc"
    /\ report.capTotals[2].capKey = "budget"

\* a selection naming one model capability and a key the model does not have
C10_WitnessStale ==
    /\ report # NoReport
    /\ selectedCaps = <<"budget", "legacy">>
    /\ Len(report.capTotals) = 1

----------------------------------------------------------------------------
(* All answers at weight 20 (C4), no answers (C5) *)

\* C4 as stated: with every question of every in-scope capability answered at
\* weight 20, every in-scope capability (also one without questions) scores
\* 100 and the overall score is 100.
C4_AllTwenty ==
    (report # NoReport /\ AllTwenty) =>
        /\ \A i \in 1..Len(report.capTotals) :
              report.capTotals[i].capScore100 = DblInt(100)
        /\ report.overallAvgCapScore100 = DblInt(100)

\* C4 amended: every in-scope capability that has a question scores 100, one
\* without questions scores 0, and the overall score is 100 when at least one
\* capability is in scope and each in-scope capability has a question.
C4_AllTwentyAmended ==
    (report # NoReport /\ AllTwenty) =>
        /\ Len(report.capTotals) = Len(ScopedCaps)
        /\ \A i \in 1..Len(ScopedCaps) :
              report.capTotals[i].capScore100 =
                  IF Len(ScopedCaps[i].questions) > 0 THEN DblInt(100) ELSE DblInt(0)
        /\ (/\ Len(ScopedCaps) > 0
            /\ \A i \in 1..Len(ScopedCaps) : Len(ScopedCaps[i].questions) > 0)
              => report.overallAvgCapScore100 = DblInt(100)

C4_Witness ==
    /\ report # NoReport /\ AllTwenty
    /\ Len(ScopedCaps) = 2
    /\ Len(ScopedCaps[1].questions) = 2
    /\ Len(ScopedCaps[2].questions) = 1
    /\ report.overallAvgCapScore100 = DblInt(100)

\* C5: with an empty Answer Store every in-scope capability scores 0 and the
\* overall score is 0.
C5_EmptyAnswers ==
    (report # NoReport /\ answersByCap = <<>>) =>
        /\ \A i \in 1..Len(report.capTotals) :
              /\ report.capTotals[i].sum20 = 0
              /\ report.capTotals[i].capScore100 = DblInt(0)
        /\ report.overallAvgCapScore100 = DblInt(0)

C5_Witness ==
    /\ report # NoReport /\ answersByCap = <<>>
    /\ Len(report.capTotals) = 2
    /\ Len(ScopedCaps[1].questions) = 2
    /\ report.overallAvgCapScore100 = DblInt(0)

----------------------------------------------------------------------------
(* Lens percentages (C6, C7) and the spider (C8) *)

\* C6: the per-capability percentage of a lens is
\* lensSum / (answered * 20) * 100 over the answered questions of the lens
\* only (0 when none is answered), so an unanswered question of the lens does
\* not lower it.  Stated of computeCapMetrics' radarData (capIndex variant).
C6_LensAnsweredOnly ==
    allCapScores # NoReport =>
        \A i \in 1..Len(allCapScores.list) : \A li \in 1..Len(LENSES) :
            allCapScores.list[i].metrics.radarData[li].value =
                AnsweredOnlyPercent(LensSum(ScopedCaps[i], LENSES[li]),
                                    LensAnswered(ScopedCaps[i], LENSES[li]))

\* The same statement holds of the per-capability lens bars of the report variant.
Report_LensAnsweredOnly ==
    report # NoReport =>
        \A i \in 1..Len(report.capTotals) : \A li \in 1..Len(LENSES) :
            lensItems(report.capTotals[i])[li].value =
                AnsweredOnlyPercent(LensSum(ScopedCaps[i], LENSES[li]),
                                    LensAnswered(ScopedCaps[i], LENSES[li]))

\* C7: the cross-capability value of a lens is the combined sum over the
\* combined answered count times 20, times 100, and exactly 0 when no
\* question of the lens is answered in scope.  Stated of part_000's lensBars.
C7_LensOverview ==
    report # NoReport =>
        \A li \in 1..Len(LENSES) :
            DblInt(report.lensBars[li].value100) =
                AnsweredOnlyPercent(ScopeLensSum(LENSES[li]), ScopeLensAnswered(LENSES[li]))

\* The same statement holds of lensOverview (part_002).
Report_LensOverview ==
    report # NoReport =>
        \A li \in 1..Len(LENSES) :
            /\ report.lensOverview[li].label = LENSES[li]
            /\ report.lensOverview[li].value =
                  AnsweredOnlyPercent(ScopeLensSum(LENSES[li]), ScopeLensAnswered(LENSES[li]))

\* C8: the spider has one point per in-scope capability, in model order,
\* whose value is the raw total (sum of question weights), not the percentage.
\* Stated of overallSpiderData (capIndex variant).
C8_SpiderRawTotal ==
    allCapScores # NoReport =>
        LET sd == overallSpiderData(allCapScores.list)
        IN  /\ Len(sd) = Len(ScopedCaps)
            /\ \A i \in 1..Len(sd) :
                  /\ sd[i].capability = ScopedCaps[i].name
                  /\ sd[i].value = DblInt(Total20(ScopedCaps[i]))

\* The same statement holds of spiderData (report variant), fullMark included.
Report_SpiderRawTotal ==
    report # NoReport =>
        /\ Len(report.spiderData) = Len(ScopedCaps)
        /\ \A i \in 1..Len(ScopedCaps) :
              /\ report.spiderData[i].subject = ScopedCaps[i].name
              /\ report.spiderData[i].total = Total20(ScopedCaps[i])
              /\ report.spiderData[i].fullMark = Max(1, 20 * Len(ScopedCaps[i].questions))

----------------------------------------------------------------------------
(* Tier classifier (C9) *)

\* s < t for a double s and an integer t
Below(s, t) == DblLess(s, DblInt(t))

\* C9: maturityFromScore returns exactly one tier for every score:
\* Pre-crawl below 10 (also below 0), Crawl in [10,30), Walk in [30,55),
\* Run in [55,80), Fly from 80 on (also above 100).
C9_TierTotal ==
    maturity # "none" =>
        /\ maturity \in LevelSet
        /\ (maturity = "Pre-crawl") <=> Below(avg100, 10)
        /\ (maturity = "Crawl")     <=> (~Below(avg100, 10) /\ Below(avg100, 30))
        /\ (maturity = "Walk")      <=> (~Below(avg100, 30) /\ Below(avg100, 55))
        /\ (maturity = "Run")       <=> (~Below(avg100, 55) /\ Below(avg100, 80))
        /\ (maturity = "Fly")       <=> ~Below(avg100, 80)

C9_Witness ==
    /\ maturity = "Fly"
    /\ ~Below(avg100, 101)

----------------------------------------------------------------------------
(* Levels without a weight (C11) *)

\* question i (1-based) of capability c has a stored level that its scores
\* table does not list
Unscored(c, i) ==
    /\ c.key \in DOMAIN answersByCap
    /\ (i - 1) \in DOMAIN answersByCap[c.key]
    /\ answersByCap[c.key][i - 1] \notin DOMAIN c.questions[i].scores

\* C11: a stored level that the question's scores table does not list adds
\* nothing to the capability total and is not counted as answered in its
\* lens, while the Answer Store keeps it and the export payload carries it
\* verbatim.
C11_UnscoredGradeKept ==
    report # NoReport =>
        \A i \in 1..Len(ScopedCaps) : \A j \in 1..Len(ScopedCaps[i].questions) :
            LET c == ScopedCaps[i]
                e == report.capTotals[i]
            IN  Unscored(c, j) =>
                  /\ e.sum20 = SeqSum([k \in 1..Len(c.questions) |->
                                          IF k = j THEN 0 ELSE Weight(c, k)])
                  /\ \A l \in LensSet :
                        e.lensTotals[l].answered =
                            SeqSum([k \in 1..Len(c.questions) |->
                                      IF k # j /\ c.questions[k].lens = l /\ Answered(c, k)
                                      THEN 1 ELSE 0])
                  /\ buildAnswersJSON(model, selectedCaps, answersByCap,
                                      meta)["answersByCap"][c.key][j - 1]
                        = answersByCap[c.key][j - 1]

\* the imported level "Bogus" sits on a Knowledge question of an in-scope
\* capability whose other question scores 20
C11_Witness ==
    /\ report # NoReport
    /\ Len(ScopedCaps) > 0
    /\ ScopedCaps[1].key = "alloc"
    /\ Len(ScopedCaps[1].questions) = 2
    /\ Unscored(ScopedCaps[1], 1)
    /\ answersByCap["alloc"][0] = "Bogus"
    /\ report.capTotals[1].sum20 = 20
    /\ report.capTotals[1].lensTotals["Knowledge"].answered = 0
    /\ buildAnswersJSON(model, selectedCaps, answersByCap, meta)["answersByCap"]["alloc"][0]
          = "Bogus"

----------------------------------------------------------------------------
(* Questions outside the five lenses (C12) *)

\* the scoring pass returned a report
Reported == report # NoReport /\ "capTotals" \in DOMAIN report

\* C12: a scoring answer to a question whose lens is absent or not one of the
\* five lenses counts in the capability total, the capability score and the
\* overall score, and changes no lens sum and no lens answered-count, per
\* capability and across capabilities.
C12_LensExcluded ==
    report # NoReport =>
        /\ Reported
        /\ \A i \in 1..Len(ScopedCaps) :
              LET c == ScopedCaps[i]
                  e == report.capTotals[i]
              IN  /\ e.sum20 = Total20(c)
                  /\ e.capScore100 = Score100(c)
                  /\ \A l \in LensSet :
                        /\ e.lensTotals[l].sum = LensSum(c, l)
                        /\ e.lensTotals[l].answered = LensAnswered(c, l)
        /\ report.overallAvgCapScore100 =
              DblDivInt(DblReduceSum(DblInt(0), [i \in 1..Len(ScopedCaps) |->
                                                    Score100(ScopedCaps[i])]),
                        Len(ScopedCaps))
        /\ \A li \in 1..Len(LENSES) :
              report.lensOverview[li].value =
                  AnsweredOnlyPercent(ScopeLensSum(LENSES[li]), ScopeLensAnswered(LENSES[li]))

\* The statement holds where no answered question has an inherited key as lens.
Report_LensExcluded ==
    (report # NoReport /\ ~reportThrows(model, selectedCaps, answersByCap))
        => C12_LensExcluded

\* a scored question of lens "Culture" next to a scored Knowledge question
Report_LensExcludedSeen ==
    /\ Reported
    /\ ScopedCaps[1].questions = <<QU, QK>>
    /\ report.capTotals[1].sum20 = 30
    /\ report.capTotals[1].lensTotals["Knowledge"].sum = 10
    /\ report.capTotals[1].lensTotals["Knowledge"].answered = 1

----------------------------------------------------------------------------
(* setAnswer (C13) *)

\* the store `after` holds level at (k, idx) and agrees with `before` on
\* every other (capability, index) pair
OverwritesOnly(before, after, k, idx, level) ==
    /\ k \in DOMAIN after
    /\ idx \in DOMAIN after[k]
    /\ after[k][idx] = level
    /\ DOMAIN after = DOMAIN before \cup {k}
    /\ \A k2 \in DOMAIN before : k2 # k => after[k2] = before[k2]
    /\ DOMAIN after[k] = (IF k \in DOMAIN before THEN DOMAIN before[k] ELSE {}) \cup {idx}
    /\ \A i2 \in DOMAIN after[k] : i2 # idx => after[k][i2] = before[k][i2]

\* C13: setAnswer(capabilityKey, questionIndex, grade) leaves exactly the
\* grade just set at that (capability, index) pair, leaves every other pair
\* unchanged, and setting the same grade again changes nothing.
C13_SetAnswerOverwrites ==
    [][\A idx \in 0..(MaxQ - 1), level \in SessionLevels :
          SetAnswer(idx, level) =>
              /\ OverwritesOnly(answersByCap, answersByCap', currentCap.key, idx, level)
              /\ setAnswerUpdate(answersByCap', currentCap.key, idx, level) = answersByCap'
      ]_vars

\* The same statement holds of the capIndex variant's setAnswer.
App_SetAnswerOverwrites ==
    [][\A qid \in 0..(MaxQ - 1), level \in LevelSet :
          AppSetAnswer(qid, level) =>
              LET k == capKeyOf(model, selectedCaps, capIndex)
              IN  /\ OverwritesOnly(answersByCap, answersByCap', k, qid, level)
                  /\ setAnswerUpdate(answersByCap', k, qid, level) = answersByCap'
      ]_vars

\* the imported level at index 0 of "alloc" was overwritten by a setAnswer,
\* next to entries the import left
C13_Witness ==
    /\ "alloc" \in DOMAIN answersByCap
    /\ DOMAIN answersByCap["alloc"] = {0, 7}
    /\ answersByCap["alloc"][0] = "Fly"
    /\ answersByCap["alloc"][7] = "Fly"
    /\ "legacy" \in DOMAIN answersByCap
    /\ answersByCap["legacy"][0] = "Fly"

----------------------------------------------------------------------------
(* Reset of the current capability (C14) *)

\* C14: the reset of the assessment tab empties the answers of the capability
\* shown, leaves the answers of every other capability, the selection and the
\* model unchanged, and the capability scores 0 afterwards.
C14_ResetCurrent ==
    [][AppResetCurrent =>
          LET k == capKeyOf(model, selectedCaps, capIndex)
          IN  /\ k \in DOMAIN answersByCap'
              /\ answersByCap'[k] = <<>>
              /\ DOMAIN answersByCap' = DOMAIN answersByCap \cup {k}
              /\ \A k2 \in DOMAIN answersByCap : k2 # k => answersByCap'[k2] = answersByCap[k2]
              /\ UNCHANGED <<selectedCaps, model>>
              /\ HasCapability(model, selectedCaps, capIndex) =>
                    /\ allCapScores'.list[capIndex + 1].key = k
                    /\ allCapScores'.list[capIndex + 1].metrics.sum20 = 0
                    /\ allCapScores'.list[capIndex + 1].metrics.count = 0
                    /\ allCapScores'.list[capIndex + 1].metrics.capScore100 = DblInt(0)
      ]_vars

\* "alloc" is shown and has no answers left while "budget" keeps its answer
C14_Witness ==
    /\ activeTab = "assessment"
    /\ HasCapability(model, selectedCaps, capIndex)
    /\ capKeyOf(model, selectedCaps, capIndex) = "alloc"
    /\ "alloc" \in DOMAIN answersByCap
    /\ answersByCap["alloc"] = <<>>
    /\ "budget" \in DOMAIN answersByCap
    /\ answersByCap["budget"] = (0 :> "Walk")
    /\ Len(allCapScores.list) = 2
    /\ allCapScores.list[1].key = "alloc"
    /\ allCapScores.list[1].metrics.capScore100 = DblInt(0)
    /\ allCapScores.list[2].metrics.capScore100 = DblInt(50)

----------------------------------------------------------------------------
(* Export followed by import (C15) *)

\* the (capability, index, grade) entries of a store
Entries(store) ==
    {<<k, i, store[k][i]>> : <<k, i>> \in
        UNION {{<<k2, i2>> : i2 \in DOMAIN store[k2]} : k2 \in DOMAIN store}}

\* the i-th pending read is an Import Answers of the j-th file the session
\* exported, started and completed while the model the file was built under
\* is loaded
ImportOfExport(i, j) ==
    /\ i \in 1..Len(pendingReads)
    /\ j \in 1..Len(exported)
    /\ pendingReads[i].handler = "importAnswers"
    /\ pendingReads[i].value = exported[j].file
    /\ exported[j].state.model = model
    /\ pendingReads[i].allCaps = allCaps(model)

\* C15: importing an exported payload while the model it was built under is
\* loaded gives back the Answer Store that was exported, whatever the store
\* holds at the time of the import: the same capability keys, indices and
\* grades.  Stated of the by-text items shape (capIndex variant) on the
\* entries of the store, so that a capability without answers may or may not
\* have an (empty) entry.
C15_RoundTrip ==
    [][\A i \in 1..MaxPending, j \in 1..MaxAppExports :
           (ImportOfExport(i, j) /\ AppImportAnswersAt(i))
               => Entries(answersByCap') = Entries(exported[j].state.answersByCap)]_vars

\* The index-keyed shape (report variant): the payload carries the store and
\* importAnswers installs the payload's store.
Report_RoundTrip ==
    LET out == buildAnswersJSON(model, selectedCaps, answersByCap, meta)
    IN  /\ "answersByCap" \in DOMAIN out
        /\ out["answersByCap"] = answersByCap

\* every capability that has an answer in the state st is in scope in st
AnsweredInScope(st) ==
    \A k \in DOMAIN st.answersByCap :
        st.answersByCap[k] # <<>> =>
            \E i \in 1..Len(selectedList(st.model, st.selectedCaps)) :
                selectedList(st.model, st.selectedCaps)[i].key = k

\* With every answered capability in scope at the time of the export the
\* by-text round trip gives back the entries of the exported store.
App_RoundTripInScope ==
    [][\A n \in 1..MaxPending, j \in 1..MaxAppExports :
           (/\ ImportOfExport(n, j)
            /\ AppImportAnswersAt(n)
            /\ AnsweredInScope(exported[j].state))
               => Entries(answersByCap') = Entries(exported[j].state.answersByCap)]_vars

----------------------------------------------------------------------------
(* Import by text (C16) *)

\* the store `after` is what an import of the by-text payload f into model m
\* must leave: per capability key of both, each question whose text is the
\* text of an item holds that item's chosen level at the question's index,
\* and nothing else is stored
ImportedByText(m, f, after) ==
    \A key \in DOMAIN f["answers"] :
        LET items == f["answers"][key].items
        IN  /\ key \in DOMAIN after
            /\ \A c \in 1..Len(allCaps(m)) :
                  allCaps(m)[c].key = key =>
                      LET qs == allCaps(m)[c].questions
                      IN  /\ DOMAIN after[key] \subseteq 0..(Len(qs) - 1)
                          /\ \A i \in 1..Len(qs) :
                                /\ \A n \in 1..Len(items) :
                                      (items[n].question = qs[i].text
                                          /\ items[n].chosenLevel # "")
                                        => /\ (i - 1) \in DOMAIN after[key]
                                           /\ after[key][i - 1] = items[n].chosenLevel
                                /\ (i - 1) \in DOMAIN after[key] =>
                                      \E n \in 1..Len(items) :
                                          /\ items[n].question = qs[i].text
                                          /\ items[n].chosenLevel = after[key][i - 1]
            /\ (\A c \in 1..Len(allCaps(m)) : allCaps(m)[c].key # key) => after[key] = <<>>

\* C16: an import by text into a model that may have been edited gives each
\* model question whose text equals an item's text that item's chosen level
\* at the question's current index, also when the question moved; an item
\* whose text matches no question leaves no entry, and the import goes through.
\* Stated of the imports during which the model is the one importAnswers was
\* called under.
C16_ImportByText ==
    [][\A i \in 1..MaxPending :
           (/\ i <= Len(pendingReads)
            /\ pendingReads[i].handler = "importAnswers"
            /\ pendingReads[i].value = PayloadOld
            /\ pendingReads[i].allCaps = allCaps(model)
            /\ AppImportAnswersAt(i))
               => /\ ImportedByText(model, PayloadOld, answersByCap')
                  /\ DOMAIN answersByCap' = DOMAIN PayloadOld["answers"]
                  /\ selectedCaps' = PayloadOld["selectedCaps"]
                  /\ Mounted'
      ]_vars

\* the same of every file the session exports, imported at any later time
App_ExportImportedByText ==
    [][\A i \in 1..MaxPending :
           (/\ i <= Len(pendingReads)
            /\ pendingReads[i].handler = "importAnswers"
            /\ IsExportedFile(pendingReads[i].value)
            /\ pendingReads[i].allCaps = allCaps(model)
            /\ AppImportAnswersAt(i))
               => ImportedByText(model, pendingReads[i].value, answersByCap')
      ]_vars

\* the old payload was imported into the edited model: "showback cadence"
\* moved to index 0 and keeps its level, "tagging policy" was reworded and
\* "retired question" is gone, so neither leaves an entry
C16_Witness ==
    /\ Len(allCaps(model)) = 2
    /\ allCaps(model)[1].questions = <<AP, AK2>>
    /\ DOMAIN answersByCap = {"alloc", "budget", "legacy"}
    /\ answersByCap["alloc"] = (0 :> "Fly")
    /\ answersByCap["budget"] = <<>>
    /\ answersByCap["legacy"] = <<>>
    /\ selectedCaps = <<"alloc">>

----------------------------------------------------------------------------
(* Rejected model files (C17) *)

\* the model files the claim names: null, a non-object, an object without
\* `capabilities`, an object whose `capabilities` is no array
InvalidModelValues == {JsonNull, JsonNumber, ObjNoCapabilities, ObjCapabilitiesString}

\* C17: importModel of null, of a non-object, of an object without
\* `capabilities` or of an object whose `capabilities` is no array leaves the
\* model, the selection and the answers unchanged.
C17_InvalidModelRejected ==
    [][\A f \in InvalidModelValues :
           ImportModelFile(f) => UNCHANGED <<model, selectedCaps, answersByCap>>]_vars

\* the report variant rejects the values whose `capabilities` is falsy
Report_FalsyCapabilitiesRejected ==
    [][\A f \in {JsonSyntaxError, JsonNull, JsonNumber, ObjNoCapabilities} :
           ImportModelFile(f) => UNCHANGED <<model, selectedCaps, answersByCap, report>>]_vars

\* a file whose `capabilities` is a string became the model of a session
\* that had a model, a selection and answers
Report_StringCapabilitiesSeen ==
    /\ model = ObjCapabilitiesString
    /\ ~Mounted
    /\ selectedCaps # <<>>
    /\ answersByCap # <<>>

\* the capIndex variant tests Array.isArray and rejects all of them
App_InvalidModelRejected ==
    [][\A f \in InvalidModelValues \cup {JsonSyntaxError} :
           AppImportModel(f) => UNCHANGED <<model, selectedCaps, answersByCap, capIndex,
                                            activeTab>>]_vars

----------------------------------------------------------------------------
(* Rejected answers files (C18) *)

\* the payloads the claim names: text that is no JSON, and JSON values that
\* are no object (null, a number)
InvalidAnswerValues == {JsonSyntaxError, JsonNull, JsonNumber}

\* C18: importAnswers of a payload that is no JSON or no object is rejected
\* and changes neither the answers, nor the selection, nor the meta, nor the
\* model.  In the report variant a handler that rejects stops before
\* setActiveTab("report"), so a rejected import also leaves the tab.
C18_InvalidAnswersRejected ==
    [][\A f \in InvalidAnswerValues :
           ImportAnswersFile(f) =>
               UNCHANGED <<answersByCap, selectedCaps, meta, model, activeTab>>]_vars

\* the report variant changes none of the four with any of these payloads
Report_InvalidAnswersNoChange ==
    [][\A f \in InvalidAnswerValues :
           ImportAnswersFile(f) => UNCHANGED <<answersByCap, selectedCaps, meta, model>>]_vars

\* the capIndex variant throws on all of them before it sets anything
App_InvalidAnswersRejected ==
    [][\A f \in InvalidAnswerValues :
           AppImportAnswers(f) =>
               UNCHANGED <<answersByCap, selectedCaps, meta, model, activeTab, capIndex>>]_vars

----------------------------------------------------------------------------
(* The state after a model load (C19) *)

\* C19: after every successful model load, by importModel or by the
\* auto-load, the selection is the list of all capability keys of the new
\* model and the answers are empty, whatever they were before.
C19_ModelLoadResets ==
    [][(\/ \E obj \in ModelFileInputs : ImportModelFile(obj)
        \/ \E obj \in PublicModelInputs : AutoLoadDone(obj))
           => /\ selectedCaps' = modelKeys(model')
              /\ answersByCap' = <<>>]_vars

\* importModel of the report variant selects all keys and keeps the answers
Report_ImportModelKeepsAnswers ==
    [][(\E obj \in ModelFileInputs : ImportModelFile(obj))
           => /\ selectedCaps' = modelKeys(model')
              /\ answersByCap' = answersByCap]_vars

\* a model was imported into a session with answers, and they are still there
Report_AnswersAfterImportSeen ==
    /\ model = ModelB
    /\ activeTab = "setup"
    /\ selectedCaps = modelKeys(ModelB)
    /\ "alloc" \in DOMAIN answersByCap
    /\ 0 \in DOMAIN answersByCap["alloc"]

\* importModel of the capIndex variant selects all keys and empties the answers
App_ModelLoadResets ==
    [][\A f \in {AppModelA, AppModelB} :
           AppImportModel(f) => /\ model' = [capabilities |-> f.capabilities]
                                /\ selectedCaps' = modelKeys(model')
                                /\ answersByCap' = <<>>]_vars

----------------------------------------------------------------------------
(* Stale entries of the store (C20) *)

\* question index idx (0-based) of capability key k exists in model m
EntryInModel(m, k, idx) ==
    \E c \in 1..Len(allCaps(m)) :
        /\ allCaps(m)[c].key = k
        /\ idx \in 0..(Len(allCaps(m)[c].questions) - 1)

\* the store without its stale entries
LiveEntries(m, store) ==
    [k \in {x \in DOMAIN store : \E c \in 1..Len(allCaps(m)) : allCaps(m)[c].key = x} |->
        [idx \in {i \in DOMAIN store[k] : EntryInModel(m, k, i)} |-> store[k][idx]]]

\* the store holds an entry whose key or index the model does not have
HasStaleEntry(m, store) ==
    \E k \in DOMAIN store : \E idx \in DOMAIN store[k] : ~EntryInModel(m, k, idx)

\* C20: the entries whose capability key or question index the model does not
\* have change nothing in the report (in every state it is the report of the
\* store without them); a model import removes no entry, and the report after
\* the import counts every stored entry that matches the new model.
C20_StaleEntriesInert ==
    /\ [](report = computeReport(model, selectedCaps,
                                 LiveEntries(model, answersByCap)))
    /\ [][\A obj \in ModelFileInputs :
              ImportModelFile(obj) =>
                  /\ answersByCap' = answersByCap
                  /\ Len(report'.capTotals) = Len(obj.capabilities)
                  /\ \A i \in 1..Len(obj.capabilities) :
                        /\ report'.capTotals[i].capKey = obj.capabilities[i].key
                        /\ report'.capTotals[i].sum20 = Total20(obj.capabilities[i])
        ]_vars

\* ModelB was imported over a store from a snapshot: the answer of "budget"
\* index 0, stale while "budget" had no questions, scores again; the answer
\* of "alloc" index 1 and the entries of other models are stale and stored
C20_Witness ==
    /\ model = ModelB
    /\ activeTab = "setup"
    /\ storedHash = ModelA
    /\ selectedCaps = modelKeys(ModelB)
    /\ DOMAIN answersByCap = {"alloc", "budget"}
    /\ answersByCap["budget"] = (0 :> "Fly")
    /\ answersByCap["alloc"] = (1 :> "Walk")
    /\ HasStaleEntry(model, answersByCap)
    /\ ~EntryInModel(ModelA, "budget", 0)
    /\ report.capTotals[2].capKey = "budget"
    /\ report.capTotals[2].sum20 = ModelB.capabilities[2].questions[1].scores["Fly"]
    /\ report.capTotals[2].sum20 > 0
    /\ report.capTotals[1].sum20 = 0

----------------------------------------------------------------------------
(* The export payload (C21) *)

\* the keys of the capabilities of model m, as a set
KeySet(m) == {allCaps(m)[i].key : i \in 1..Len(allCaps(m))}

\* the keys of the capabilities that are in scope in the state st
KeysInScope(st) ==
    {k \in KeySet(st.model) : st.selectedCaps = <<>> \/ k \in Range(st.selectedCaps)}

\* the fields of a payload other than exportedAt
PayloadFields == {"appName", "modelVersion", "meta", "modelKeys", "selectedCaps",
                  "answersByCap"}

\* what the payload built in the state st holds in the fields that do not
\* depend on st's selection
StateFields(st) ==
    [appName      |-> APP_NAME,
     modelVersion |-> IF st.model = NoModel \/ st.model.version = ""
                      THEN MODEL_VERSION_FALLBACK ELSE st.model.version,
     meta         |-> st.meta,
     modelKeys    |-> [c \in 1..Len(allCaps(st.model)) |-> allCaps(st.model)[c].key],
     answersByCap |-> st.answersByCap]

C21_WitnessDefaultOpen ==
    /\ Len(exported) >= 1
    /\ exported[1].state.selectedCaps = <<>>
    /\ exported[1].state.model = ModelA
    /\ exported[1].file["selectedCaps"] = <<"alloc", "budget">>

----------------------------------------------------------------------------
(* Save and restore of a snapshot (C22) *)

\* snapshot id is in the stored list
InSnapshots(id) == \E i \in 1..Len(snapshots) : snapshots[i]["id"] = id

\* C22: restoreSnapshot of the id of a snapshot saved in state S installs the
\* answers and the meta of S and shows the report tab, whatever setAnswer,
\* toggleCap, selectAll, clearAll and meta edits came in between; under the
\* model of S the capabilities in scope are those of S.  restoreSnapshot of
\* an id the stored list does not have changes nothing.
C22_SnapshotRestore ==
    [][\A id \in RestoreIds :
           RestoreSnapshot(id) =>
               /\ (id \in DOMAIN savedIn /\ InSnapshots(id)) =>
                     LET S == savedIn[id]
                     IN  /\ answersByCap' = S.answersByCap
                         /\ meta' = S.meta
                         /\ activeTab' = "report"
                         /\ model' = S.model =>
                               KeysInScope([model |-> model', selectedCaps |-> selectedCaps'])
                                   = KeysInScope(S)
               /\ ~InSnapshots(id) =>
                     UNCHANGED <<model, selectedCaps, answersByCap, meta, activeTab,
                                 currentCapKey, report, snapshots>>
      ]_vars

\* a snapshot saved with an empty stored selection, one answer and the
\* customer "ACME" was restored: the stored selection now lists both keys
C22_Witness ==
    /\ "n1" \in DOMAIN savedIn
    /\ savedIn["n1"].model = ModelA
    /\ model = ModelA
    /\ savedIn["n1"].selectedCaps = <<>>
    /\ selectedCaps = <<"alloc", "budget">>
    /\ savedIn["n1"].meta.customer = "ACME"
    /\ meta = savedIn["n1"].meta
    /\ savedIn["n1"].answersByCap # <<>>
    /\ answersByCap = savedIn["n1"].answersByCap
    /\ activeTab = "report"
    /\ snapshots[1]["id"] = "n1"

----------------------------------------------------------------------------
(* The report shown is the report of the current state (C23) *)

\* C23: after every event the report shown is the scoring pass of the
\* current model, selection and answers; the memo never keeps a report
\* computed for a different state.
C23_ReportIsCurrent ==
    report = computeReport(model, selectedCaps, answersByCap)

\* the same, for the states whose selection has no key with a '|' in it
Report_CurrentWithoutSeparator ==
    ~Includes(selectedCaps, BarKey) =>
        report = computeReport(model, selectedCaps, answersByCap)

\* the selection names no capability of the model and the report still
\* lists two capabilities
Report_StaleReportSeen ==
    /\ model = ModelA
    /\ selectedCaps = <<BarKey>>
    /\ report # NoReport
    /\ Len(report.capTotals) = 2
    /\ capTotalsOf(model, selectedCaps, answersByCap) = <<>>

----------------------------------------------------------------------------
(* The auto-load and a manual import (C24) *)

\* C24: once importModel has set a model, the completion of the auto-load
\* of /model.json changes neither the model, nor the selection, nor the
\* answers.
C24_AutoLoadKeepsImport ==
    [][(model # NoModel /\ \E obj \in PublicModelInputs : AutoLoadDone(obj))
           => UNCHANGED <<model, selectedCaps, answersByCap>>]_vars

\* the guard `if (model) return` is read once, when the effect starts with
\* model = null: a completion always installs the fetched model
Report_AutoLoadInstalls ==
    [][\A obj \in PublicModelInputs : AutoLoadDone(obj) => model' = obj]_vars

----------------------------------------------------------------------------
(* toggleCap and the scope (C25) *)

\* the keys in scope before and after a step
ScopeNow  == KeysInScope([model |-> model, selectedCaps |-> selectedCaps])
ScopeNext == KeysInScope([model |-> model', selectedCaps |-> selectedCaps'])

\* C25: toggleCap(k) on a key of the model flips whether k is in scope and
\* leaves every other capability in or out of scope as it was, from every
\* selection, the empty stored selection included.
C25_ToggleFlipsOne ==
    [][\A k \in {"alloc", "budget"} :
           ToggleCap(k) =>
               /\ (k \in ScopeNext) <=> (k \notin ScopeNow)
               /\ \A other \in KeySet(model) \ {k} :
                     (other \in ScopeNext) <=> (other \in ScopeNow)
      ]_vars

\* it does so when the stored selection is not empty and is not k alone
Report_ToggleFlipsOne ==
    [][\A k \in {"alloc", "budget"} :
           (ToggleCap(k) /\ selectedCaps # <<>> /\ selectedCaps # <<k>>) =>
               /\ (k \in ScopeNext) <=> (k \notin ScopeNow)
               /\ \A other \in KeySet(model) \ {k} :
                     (other \in ScopeNext) <=> (other \in ScopeNow)
      ]_vars

\* from the empty stored selection the toggled key becomes the only one in scope
Report_ToggleFromEmpty ==
    [][\A k \in {"alloc", "budget"} :
           (ToggleCap(k) /\ selectedCaps = <<>>) =>
               /\ ScopeNow = KeySet(model)
               /\ ScopeNext = {k}
      ]_vars

----------------------------------------------------------------------------
(* capIndex and the selected list (C26) *)

\* C26: in the capIndex variant capIndex points into selectedList whenever
\* the list is not empty, and the store has no entry under a `cap_<n>` key.
C26_CapIndexInRange ==
    /\ Len(selectedList(model, selectedCaps)) > 0
           => capIndex < Len(selectedList(model, selectedCaps))
    /\ \A k \in DOMAIN answersByCap : k \notin Range(FallbackKeys)

\* setAnswer is only offered while a capability is shown, and writes under
\* its key
App_SetAnswerUnderModelKey ==
    [][\A qid \in 0..(MaxQ - 1), level \in LevelSet :
           AppSetAnswer(qid, level) =>
               /\ capIndex < Len(selectedList(model, selectedCaps))
               /\ capKeyOf(model, selectedCaps, capIndex) \in KeySet(model)
               /\ DOMAIN answersByCap' = DOMAIN answersByCap
                                             \cup {capKeyOf(model, selectedCaps, capIndex)}
      ]_vars

\* the selection shrank under the picker and Reset wrote under "cap_1"
App_FallbackKeySeen ==
    /\ Len(selectedList(model, selectedCaps)) = 1
    /\ capIndex = 1
    /\ "cap_1" \in DOMAIN answersByCap

----------------------------------------------------------------------------
(* The progress counter of the assessment tab (C27) *)

\* the questions of the current capability that contribute to the score
ContributingQuestions ==
    IF HasCurrentCap
    THEN {i \in 1..Len(currentCap.questions) : Answered(currentCap, i)}
    ELSE {}

\* C27: the counter of the current capability never exceeds the number of
\* its questions and is the number of its questions that contribute to the
\* score.
C27_ProgressCounter ==
    /\ currentAnswered <= currentTotalQ
    /\ currentAnswered = Cardinality(ContributingQuestions)

\* the counter is the number of stored entries under the current key, and
\* never less than the number of contributing questions
Report_CounterCountsEntries ==
    /\ Cardinality(ContributingQuestions) <= currentAnswered
    /\ HasCurrentCap =>
           currentAnswered = Cardinality({e \in Entries(answersByCap) : e[1] = currentCapKey})

\* "2 / 1 answered": the current capability has one question and two stored
\* entries, none of which scores
Report_CounterAboveTotalSeen ==
    /\ HasCurrentCap
    /\ currentTotalQ = 1
    /\ currentAnswered = 2
    /\ ContributingQuestions = {}

----------------------------------------------------------------------------
(* Previous / next capability of the assessment tab (C28) *)

RECURSIVE visitedByNext(_, _, _)
\* the keys that n successive gotoNext steps make current, starting at cur
visitedByNext(safe, cur, n) ==
    IF n = 0 THEN <<>>
    ELSE <<gotoNextKey(safe, cur)>> \o visitedByNext(safe, gotoNextKey(safe, cur), n - 1)

\* with the selection `safe` and the current key cur: k gotoNext steps make
\* every entry of the selection current exactly once and end at cur, the
\* ends wrap, and gotoNext then gotoPrev ends at cur
NavCycle(safe, cur) ==
    LET k == Len(safe)
        v == visitedByNext(safe, cur, k)
    IN  /\ v[k] = cur
        /\ \A i \in 1..k : Cardinality({j \in 1..k : v[j] = safe[i]}) = 1
        /\ cur = safe[k] => gotoNextKey(safe, cur) = safe[1]
        /\ cur = safe[1] => gotoPrevKey(safe, cur) = safe[k]
        /\ gotoPrevKey(safe, gotoNextKey(safe, cur)) = cur

NoRepeatedKey(safe) == \A i, j \in 1..Len(safe) : safe[i] = safe[j] => i = j

\* C28: with k >= 1 capabilities in scope the current capability is one of
\* them, k gotoNext steps from it visit every capability in scope exactly
\* once and return to it, gotoNext wraps from the last to the first and
\* gotoPrev from the first to the last, and gotoNext followed by gotoPrev
\* returns to the same capability.
C28_NavigationCycle ==
    LET safe == selectedCapsSafe(model, selectedCaps)
    IN  Len(safe) >= 1 =>
            /\ Includes(safe, currentCapKey)
            /\ NavCycle(safe, currentCapKey)

\* what holds of part_002: the current key is an entry of the selection, and
\* the cycle holds of every selection that repeats no key
Report_NavigationCycleWithoutRepeats ==
    LET safe == selectedCapsSafe(model, selectedCaps)
    IN  Len(safe) >= 1 =>
            /\ Includes(safe, currentCapKey)
            /\ NoRepeatedKey(safe) => NavCycle(safe, currentCapKey)

\* model A with the selection ['alloc', 'alloc', 'budget'] on the assessment
\* tab with 'alloc' current: gotoNext leaves 'alloc' current, 'budget' is never reached
Report_NextStuckSeen ==
    /\ model = ModelA
    /\ activeTab = "assessment"
    /\ selectedCaps = <<"alloc", "alloc", "budget">>
    /\ currentCapKey = "alloc"
    /\ gotoNextKey(selectedCaps, currentCapKey) = "alloc"

\* a full cycle over three entries without a repeated key has been walked
Report_ThreeKeyCycleSeen ==
    /\ activeTab = "assessment"
    /\ Len(selectedCaps) = 3
    /\ NoRepeatedKey(selectedCaps)
    /\ currentCapKey = selectedCaps[3]
    /\ NavCycle(selectedCaps, currentCapKey)

----------------------------------------------------------------------------
(* The stored selection and the model (C29) *)

\* the counter of the setup tab: {selectedCapsSafe.length} / {allCaps.length} selected
selectedCount == Len(selectedCapsSafe(model, selectedCaps))
allCapsCount  == Len(allCaps(model))

SelectionWithinModel(m, sel) ==
    /\ \A i \in 1..Len(sel) : Includes(modelKeys(m), sel[i])
    /\ NoRepeatedKey(sel)

\* C29: every key of the stored selection is the key of a capability of the
\* loaded model and occurs once, and the displayed count of selected
\* capabilities is at most the number of capabilities of the model.
C29_SelectionWithinModel ==
    /\ SelectionWithinModel(model, selectedCaps)
    /\ selectedCount <= allCapsCount

\* what holds of part_002: toggleCap, selectAll, clearAll and importModel keep
\* a selection within the model, importModel and selectAll and clearAll also
\* establish it
Report_SelectionKeptByToggles ==
    [][/\ (\/ SelectAll \/ ClearAll \/ \E obj \in ModelFileInputs : ImportModelFile(obj))
           => SelectionWithinModel(model', selectedCaps')
       /\ ((\E key \in {"alloc", "budget"} : ToggleCap(key))
               /\ SelectionWithinModel(model, selectedCaps))
           => SelectionWithinModel(model', selectedCaps')]_vars

\* the setup tab shows "3 / 2 selected": the selection of an answers file
\* names a key the model does not have, and a checkbox added a third key
Report_CountAboveModelSeen ==
    /\ model # NoModel
    /\ activeTab = "setup"
    /\ selectedCount = 3
    /\ allCapsCount = 2
    /\ Includes(selectedCaps, "legacy")

----------------------------------------------------------------------------
(* One answer, one capability total (C30) *)

\* the rows of the report whose sum20 or capScore100 differ between this
\* state and the next (the selection is the same in both)
ChangedTotals ==
    {i \in 1..Len(report.capTotals) :
        \/ report'.capTotals[i].sum20 # report.capTotals[i].sum20
        \/ report'.capTotals[i].capScore100 # report.capTotals[i].capScore100}

\* C30: one setAnswer changes the total (sum20) and the score (capScore100)
\* of at most one capability of the model.
C30_SetAnswerChangesOneCapability ==
    [][(\E idx \in 0..(MaxQ - 1), level \in SessionLevels : SetAnswer(idx, level))
           => Cardinality(ChangedTotals) <= 1]_vars

\* what holds of part_002: one setAnswer changes the totals of no capability
\* with another key than the one answered
Report_SetAnswerChangesOneKey ==
    [][(\E idx \in 0..(MaxQ - 1), level \in SessionLevels : SetAnswer(idx, level))
           => \A i \in ChangedTotals : report.capTotals[i].capKey = currentCapKey]_vars

\* the model with two capabilities of the key 'alloc': the one answer
\* alloc[0] = 'Fly' is counted in the totals of both
Report_TwoTotalsFromOneAnswerSeen ==
    /\ model = ModelDupKeys
    /\ answersByCap = ("alloc" :> (0 :> "Fly"))
    /\ Len(report.capTotals) = 3
    /\ report.capTotals[1].capKey = report.capTotals[2].capKey
    /\ report.capTotals[1].sum20 = 20
    /\ report.capTotals[2].sum20 = 20

====
